---- MODULE Spec2Model ----
(***************************************************************************)
(* Time-indexed pose interpolation (a2_poseTimeInterpolation, a3_a2-PLUS). *)
(*                                                                         *)
(* Numbers.  The C++ code works on doubles.  The model works on exact      *)
(* values: a sample's coordinates and every factor are rationals           *)
(* (records [n, d, e] for n/d * 10^e), and a computed orientation         *)
(* component                                                               *)
(* is a real of the form sign * sqrt(rational) (record [s, q]), which is   *)
(* what dividing a rational by a norm produces.  Floating-point rounding   *)
(* is not modelled.  Timestamps are integers counted in ticks; the         *)
(* constant 1e-9 of the denominator guard is DenominatorEps ticks.         *)
(*                                                                         *)
(* Positions.  TLA+ sequences are 1-based: position k of the model is      *)
(* index k-1 (or the iterator begin()+k-1) of the code, and position       *)
(* Len(c)+1 is the end() iterator.                                         *)
(***************************************************************************)
EXTENDS Integers, Sequences, FiniteSets, TLC

(* pose_data    main(): the samples the caller holds                       *)
(* target_time  main(): the current element of test_times                  *)
(* pc           "ready" before the call of a query, "done" after it        *)
(* impl         the query called: a2/a3, traditional/modern                *)
(* container    the container the data was handed over in (a3)             *)
(* neighbors    what the locator called by the query returned or threw     *)
(* result       what the query returned or threw                           *)
(* arg_pose1, arg_pose2, arg_t                                             *)
(*              the arguments of a call of an interpolator on its own      *)
(* interpolated what that call did and returned                            *)
VARIABLES pose_data, target_time, pc, impl, container, neighbors, result,
          arg_pose1, arg_pose2, arg_t, interpolated,
          callers, overlapped,
          variant, hardware_concurrency, total_size, copy_index, par_pc,
          num_threads, block_size, block_begin, threads, own_it, applied, squares,
          mat_A, vec_b, max_iterations, tolerance, jacobi_pc, vec_x, iter, solve_result

vars == <<pose_data, target_time, pc, impl, container, neighbors, result,
          arg_pose1, arg_pose2, arg_t, interpolated,
          callers, overlapped,
          variant, hardware_concurrency, total_size, copy_index, par_pc,
          num_threads, block_size, block_begin, threads, own_it, applied, squares,
          mat_A, vec_b, max_iterations, tolerance, jacobi_pc, vec_x, iter, solve_result>>

(* the variables of a query, and of a call of an interpolator *)
query_vars == <<pose_data, target_time, container, neighbors, result>>
call_vars == <<arg_pose1, arg_pose2, arg_t, interpolated>>

(* the variables of a call of a parallel for-each: what main() calls it    *)
(* with, and the locals of the call, its threads and the vectors of main() *)
par_vars == <<variant, hardware_concurrency, total_size, copy_index, par_pc, num_threads, block_size, block_begin, threads,
              own_it, applied, squares>>

(* the variables of a call of solveWithManualJacobi: its arguments, and its *)
(* locals and the SolveResult it builds                                    *)
jacobi_vars == <<mat_A, vec_b, max_iterations, tolerance, jacobi_pc, vec_x, iter, solve_result>>

(* the variables of the programs other than the queries and the interpolators *)
extra_vars == <<callers, overlapped, par_vars, jacobi_vars>>

(* Bounds of the model. *)
MaxLen == 3
MaxTime == 4
MaxFactorDen == 4

(* 1e-9, the threshold of the denominator guard, in ticks. *)
DenominatorEps == 3

(* ---------------------------------------------------------------------- *)
(* Exact arithmetic.  A number is (n / d) * 10^e with n / d in lowest     *)
(* terms, d > 0, and e the number of whole factors of 10 in the value:    *)
(* neither n nor d is a multiple of 10, d is prime to 10 when e > 0 and n *)
(* is prime to 10 when e < 0.  Each value has one such form, zero being   *)
(* 0/1 * 10^0.  The exponent keeps magnitudes such as 1e-11 inside the    *)
(* integers of the checker.                                               *)
(* ---------------------------------------------------------------------- *)
Abs(x) == IF x < 0 THEN -x ELSE x

RECURSIVE Gcd(_, _)
Gcd(a, b) == IF b = 0 THEN a ELSE Gcd(b, a % b)

RECURSIVE Pow10(_)
Pow10(k) == IF k = 0 THEN 1 ELSE 10 * Pow10(k - 1)

(* moves the factors of 10 of n / d, in lowest terms, into the exponent *)
RECURSIVE Shift10(_, _, _)
Shift10(n, d, e) ==
    IF n % 10 = 0 THEN Shift10(n \div 10, d, e + 1)
    ELSE IF d % 10 = 0 THEN Shift10(n, d \div 10, e - 1)
    ELSE IF e > 0 /\ d % 2 = 0 THEN Shift10(n * 5, d \div 2, e - 1)
    ELSE IF e > 0 /\ d % 5 = 0 THEN Shift10(n * 2, d \div 5, e - 1)
    ELSE IF e < 0 /\ n % 2 = 0 THEN Shift10(n \div 2, d * 5, e + 1)
    ELSE IF e < 0 /\ n % 5 = 0 THEN Shift10(n \div 5, d * 2, e + 1)
    ELSE [n |-> n, d |-> d, e |-> e]

(* (n / d) * 10^e in the form above; d = 0 stands for a non-finite double *)
Canon(n, d, e) ==
    IF d = 0 THEN [n |-> (IF n < 0 THEN -1 ELSE IF n = 0 THEN 0 ELSE 1), d |-> 0, e |-> 0]
    ELSE IF n = 0 THEN [n |-> 0, d |-> 1, e |-> 0]
    ELSE Shift10(n \div Gcd(Abs(n), d), d \div Gcd(Abs(n), d), e)

Rat(n, d) == IF d < 0 THEN Canon(-n, -d, 0) ELSE Canon(n, d, 0)

RInt(i) == Rat(i, 1)

(* a * 10^k *)
RScale10(a, k) == IF a.n = 0 THEN a ELSE [n |-> a.n, d |-> a.d, e |-> a.e + k]

RNeg(a) == [n |-> -a.n, d |-> a.d, e |-> a.e]

RSign(a) == IF a.n < 0 THEN -1 ELSE IF a.n = 0 THEN 0 ELSE 1

RAdd(a, b) ==
    IF a.n = 0 THEN b
    ELSE IF b.n = 0 THEN a
    ELSE LET e == IF a.e < b.e THEN a.e ELSE b.e
             g == Gcd(a.d, b.d)
         IN  Canon(a.n * Pow10(a.e - e) * (b.d \div g)
                     + b.n * Pow10(b.e - e) * (a.d \div g),
                   (a.d \div g) * b.d, e)

RSub(a, b) == RAdd(a, RNeg(b))

RMul(a, b) ==
    LET g1 == Gcd(Abs(a.n), b.d)
        g2 == Gcd(Abs(b.n), a.d)
    IN  IF a.n = 0 \/ b.n = 0 THEN Canon(0, 1, 0)
        ELSE Canon((a.n \div g1) * (b.n \div g2), (a.d \div g2) * (b.d \div g1),
                   a.e + b.e)

RDiv(a, b) ==
    LET g1 == Gcd(Abs(a.n), Abs(b.n))
        g2 == Gcd(a.d, b.d)
    IN  IF b.n = 0 THEN Canon(a.n, 0, 0)
        ELSE IF a.n = 0 THEN a
        ELSE Canon(RSign(b) * (a.n \div g1) * (b.d \div g2),
                   (a.d \div g2) * (Abs(b.n) \div g1), a.e - b.e)

RLess(a, b) == RSign(RSub(a, b)) < 0
RMin(a, b) == IF RLess(b, a) THEN b ELSE a
RMax(a, b) == IF RLess(a, b) THEN b ELSE a

(* n / d > 10^(-k), k >= 0, without building 10^k *)
RECURSIVE AbovePow10Neg(_, _, _)
AbovePow10Neg(n, d, k) ==
    IF n > d THEN TRUE
    ELSE IF k = 0 THEN FALSE
    ELSE AbovePow10Neg(n * 10, d, k - 1)

(* n / d > 10^k, k >= 0 *)
RECURSIVE AbovePow10Pos(_, _, _)
AbovePow10Pos(n, d, k) ==
    IF n <= d THEN FALSE
    ELSE IF k = 0 THEN TRUE
    ELSE AbovePow10Pos(n, d * 10, k - 1)

(* a > 10^(-k) *)
RAbovePow10(a, k) ==
    IF a.n <= 0 THEN FALSE
    ELSE IF k + a.e >= 0 THEN AbovePow10Neg(a.n, a.d, k + a.e)
    ELSE AbovePow10Pos(a.n, a.d, 0 - (k + a.e))

(* A real sign * sqrt(q), q a non-negative rational. *)
Surd(s, q) == [s |-> IF q.n = 0 THEN 0 ELSE s, q |-> q]
SurdOfRat(a) == Surd(RSign(a), RMul(a, a))

(* ---------------------------------------------------------------------- *)
(* pose.hpp: value types.                                                 *)
(* ---------------------------------------------------------------------- *)
Vector3(x, y, z) == [x |-> x, y |-> y, z |-> z]

Quaternion(w, x, y, z) == [w |-> w, x |-> x, y |-> y, z |-> z]

Pose(pos, orient) == [position |-> pos, orientation |-> orient]

TimedPose(time, p) == [time_stamp |-> time, pose |-> p]

(* The value a quaternion of rationals denotes, component by component. *)
QuatValue(q) ==
    [kind |-> "value", w |-> SurdOfRat(q.w), x |-> SurdOfRat(q.x),
     y |-> SurdOfRat(q.y), z |-> SurdOfRat(q.z)]

(* A TimedPose as returned to the caller: same fields, orientation as value. *)
Returned(tp) ==
    TimedPose(tp.time_stamp, Pose(tp.pose.position, QuatValue(tp.pose.orientation)))

(* ---------------------------------------------------------------------- *)
(* Containers of a3: vector and list hold TimedPose, map holds            *)
(* (key, TimedPose) pairs ordered by key.                                 *)
(* ---------------------------------------------------------------------- *)
Containers == {"vector", "list", "map"}

RECURSIVE SortedKeys(_)
SortedKeys(S) ==
    IF S = {} THEN <<>>
    ELSE LET m == CHOOSE a \in S : \A b \in S : a <= b
         IN  <<m>> \o SortedKeys(S \ {m})

(* variant: the map ordered by descending key *)
BuildMap_Descending(data) ==
    LET keys == SortedKeys({data[k].time_stamp : k \in 1..Len(data)})
        at(t) == CHOOSE k \in 1..Len(data) : data[k].time_stamp = t
    IN  [i \in 1..Len(keys) |->
           [first |-> keys[Len(keys) + 1 - i], second |-> data[at(keys[Len(keys) + 1 - i])]]]

(* poses_map[p.time_stamp] = p for every p of the data, in order: the last *)
(* sample written under a key is the one the map keeps.                    *)
BuildMap(data) ==
    LET keys == SortedKeys({data[k].time_stamp : k \in 1..Len(data)})
        lastAt(t) == CHOOSE k \in 1..Len(data) :
                        /\ data[k].time_stamp = t
                        /\ \A j \in 1..Len(data) : data[j].time_stamp = t => j <= k
    IN  [i \in 1..Len(keys) |-> [first |-> keys[i], second |-> data[lastAt(keys[i])]]]

BuildContainer(kind, data) == IF kind = "map" THEN BuildMap(data) ELSE data

getTimedPose(kind, c, k) == IF kind = "map" THEN c[k].second ELSE c[k]

getTimestamp(kind, c, k) == IF kind = "map" THEN c[k].first ELSE c[k].time_stamp

getTimedPoseModern(kind, c, k) == IF kind = "map" THEN c[k].second ELSE c[k]

getTimestampModern(kind, c, k) == IF kind = "map" THEN c[k].first ELSE c[k].time_stamp

(* ---------------------------------------------------------------------- *)
(* Neighbor locators.  An outcome is a pair of positions or the exception *)
(* thrown; reads is the set of positions whose element was dereferenced.  *)
(* ---------------------------------------------------------------------- *)
Found(i, j, reads) == [kind |-> "pair", first |-> i, second |-> j, reads |-> reads]

Thrown(what, reads) == [kind |-> what, first |-> 0, second |-> 0, reads |-> reads]

(* the reads of `target < front || target > back` (short-circuit) *)
RangeReads(front, n, target) == IF target < front THEN {1} ELSE {1, n}

(* a2 traditional: for (i = 0; i < size - 1; ++i), i is a 0-based index *)
RECURSIVE ScanIndices(_, _, _, _)
ScanIndices(poses, target, i, reads) ==
    IF i >= Len(poses) - 1 THEN Thrown("runtime_error", reads)
    ELSE IF poses[i + 1].time_stamp <= target
         THEN IF target < poses[i + 2].time_stamp
              THEN Found(i + 1, i + 2, reads \cup {i + 1, i + 2})
              ELSE ScanIndices(poses, target, i + 1, reads \cup {i + 1, i + 2})
         ELSE ScanIndices(poses, target, i + 1, reads \cup {i + 1})

(* variant: the range check rejects the first timestamp (`<=` for `<`) *)
findNeighborPoseIndices_InclusiveLower(poses, target) ==
    LET n == Len(poses) IN
    IF n = 0 THEN Thrown("invalid_argument", {})
    ELSE IF target <= poses[1].time_stamp \/ target > poses[n].time_stamp
         THEN Thrown("out_of_range", RangeReads(poses[1].time_stamp, n, target))
    ELSE IF target = poses[1].time_stamp THEN Found(1, 1, {1, n})
    ELSE IF target = poses[n].time_stamp THEN Found(n, n, {1, n})
    ELSE ScanIndices(poses, target, 0, {1, n})

findNeighborPoseIndices(poses, target) ==
    LET n == Len(poses) IN
    IF n = 0 THEN Thrown("invalid_argument", {})
    ELSE IF target < poses[1].time_stamp \/ target > poses[n].time_stamp
         THEN Thrown("out_of_range", RangeReads(poses[1].time_stamp, n, target))
    ELSE IF target = poses[1].time_stamp THEN Found(1, 1, {1, n})
    ELSE IF target = poses[n].time_stamp THEN Found(n, n, {1, n})
    ELSE ScanIndices(poses, target, 0, {1, n})

(* variant: the lower comparison of the scan is strict (`<` for `<=`) *)
RECURSIVE ScanIterators_StrictLower(_, _, _, _, _)
ScanIterators_StrictLower(kind, c, target, curr, reads) ==
    IF curr = Len(c) + 1 THEN Thrown("runtime_error", reads)
    ELSE IF getTimestamp(kind, c, curr - 1) < target
         THEN IF target < getTimestamp(kind, c, curr)
              THEN Found(curr - 1, curr, reads \cup {curr - 1, curr})
              ELSE ScanIterators_StrictLower(kind, c, target, curr + 1,
                                             reads \cup {curr - 1, curr})
         ELSE ScanIterators_StrictLower(kind, c, target, curr + 1, reads \cup {curr - 1})

(* a3 traditional: prev_it / curr_it walk; curr is the position of curr_it *)
RECURSIVE ScanIterators(_, _, _, _, _)
ScanIterators(kind, c, target, curr, reads) ==
    IF curr = Len(c) + 1 THEN Thrown("runtime_error", reads)
    ELSE IF getTimestamp(kind, c, curr - 1) <= target
         THEN IF target < getTimestamp(kind, c, curr)
              THEN Found(curr - 1, curr, reads \cup {curr - 1, curr})
              ELSE ScanIterators(kind, c, target, curr + 1, reads \cup {curr - 1, curr})
         ELSE ScanIterators(kind, c, target, curr + 1, reads \cup {curr - 1})

(* variant: the range check forgets `target > back` *)
findNeighborPoseIterators_NoUpperCheck(kind, c, target) ==
    LET n == Len(c) IN
    IF n = 0 THEN Thrown("invalid_argument", {})
    ELSE IF target < getTimestamp(kind, c, 1)
         THEN Thrown("out_of_range", {1})
    ELSE IF target = getTimestamp(kind, c, 1) THEN Found(1, 1, {1, n})
    ELSE IF target = getTimestamp(kind, c, n) THEN Found(n, n, {1, n})
    ELSE ScanIterators(kind, c, target, 2, {1, n})

findNeighborPoseIterators(kind, c, target) ==
    LET n == Len(c) IN
    IF n = 0 THEN Thrown("invalid_argument", {})
    ELSE IF target < getTimestamp(kind, c, 1) \/ target > getTimestamp(kind, c, n)
         THEN Thrown("out_of_range", RangeReads(getTimestamp(kind, c, 1), n, target))
    ELSE IF target = getTimestamp(kind, c, 1) THEN Found(1, 1, {1, n})
    ELSE IF target = getTimestamp(kind, c, n) THEN Found(n, n, {1, n})
    ELSE ScanIterators(kind, c, target, 2, {1, n})

(* variant: std::upper_bound, the first element greater than the target *)
RECURSIVE LowerBound_UpperBound(_, _, _, _, _)
LowerBound_UpperBound(ts, target, first, len, reads) ==
    IF len <= 0 THEN [pos |-> first, reads |-> reads]
    ELSE LET half == len \div 2
             middle == first + half
         IN  IF ts[middle] <= target
             THEN LowerBound_UpperBound(ts, target, middle + 1, len - half - 1,
                                        reads \cup {middle})
             ELSE LowerBound_UpperBound(ts, target, first, half, reads \cup {middle})

(* std::lower_bound(begin, end, target, comp): bisection over [first, first+len) *)
RECURSIVE LowerBound(_, _, _, _, _)
LowerBound(ts, target, first, len, reads) ==
    IF len <= 0 THEN [pos |-> first, reads |-> reads]
    ELSE LET half == len \div 2
             middle == first + half
         IN  IF ts[middle] < target
             THEN LowerBound(ts, target, middle + 1, len - half - 1, reads \cup {middle})
             ELSE LowerBound(ts, target, first, half, reads \cup {middle})

(* variant: the range check rejects the last timestamp (`>=` for `>`) *)
findNeighborPoseIndicesModern_InclusiveUpper(poses, target) ==
    LET n == Len(poses) IN
    IF n = 0 THEN Thrown("invalid_argument", {})
    ELSE IF target < poses[1].time_stamp \/ target >= poses[n].time_stamp
         THEN Thrown("out_of_range", RangeReads(poses[1].time_stamp, n, target))
    ELSE LET lb == LowerBound([k \in 1..n |-> poses[k].time_stamp], target, 1, n, {1, n})
             it == lb.pos
         IN  IF it = 1 /\ poses[it].time_stamp = target THEN Found(it, it, lb.reads \cup {it})
             ELSE IF it = n /\ poses[it].time_stamp = target
                  THEN Found(it, it, lb.reads \cup {it})
             ELSE IF it # n + 1 /\ poses[it].time_stamp = target
                  THEN Found(it, it, lb.reads \cup {it})
             ELSE IF it # 1 THEN Found(it - 1, it, lb.reads \cup ({it} \cap (1..n)))
             ELSE Thrown("nullopt", lb.reads \cup {it})

findNeighborPoseIndicesModern(poses, target) ==
    LET n == Len(poses) IN
    IF n = 0 THEN Thrown("invalid_argument", {})
    ELSE IF target < poses[1].time_stamp \/ target > poses[n].time_stamp
         THEN Thrown("out_of_range", RangeReads(poses[1].time_stamp, n, target))
    ELSE LET lb == LowerBound([k \in 1..n |-> poses[k].time_stamp], target, 1, n, {1, n})
             it == lb.pos
         IN  IF it = 1 /\ poses[it].time_stamp = target THEN Found(it, it, lb.reads \cup {it})
             ELSE IF it = n /\ poses[it].time_stamp = target
                  THEN Found(it, it, lb.reads \cup {it})
             ELSE IF it # n + 1 /\ poses[it].time_stamp = target
                  THEN Found(it, it, lb.reads \cup {it})
             ELSE IF it # 1 THEN Found(it - 1, it, lb.reads \cup ({it} \cap (1..n)))
             ELSE Thrown("nullopt", lb.reads \cup {it})

(* variant: the range check comes first, so begin() of an empty container *)
(* is dereferenced and the comparison on what it finds reports the range  *)
findNeighborPoseIteratorsModern_RangeCheckFirst(kind, c, target) ==
    LET n == Len(c) IN
    IF n = 0 THEN Thrown("out_of_range", {1})
    ELSE IF target < getTimestampModern(kind, c, 1) \/ target > getTimestampModern(kind, c, n)
         THEN Thrown("out_of_range", RangeReads(getTimestampModern(kind, c, 1), n, target))
    ELSE LET lb == LowerBound([k \in 1..n |-> getTimestampModern(kind, c, k)],
                              target, 1, n, {1, n})
             it == lb.pos
         IN  IF it = n + 1 THEN Thrown("deref_end", lb.reads \cup {it})
             ELSE LET found_time == getTimestampModern(kind, c, it) IN
                  IF found_time = target THEN Found(it, it, lb.reads \cup {it})
                  ELSE IF it # 1 /\ getTimestampModern(kind, c, it - 1) <= target
                                 /\ target < found_time
                       THEN Found(it - 1, it, lb.reads \cup {it - 1, it})
                  ELSE Thrown("nullopt", lb.reads \cup {it} \cup ({it - 1} \cap (1..n)))

(* a3 modern.  getTimestampModern(it) is evaluated without an end() check: *)
(* dereferencing end() is undefined, reported as the outcome "deref_end".  *)
findNeighborPoseIteratorsModern(kind, c, target) ==
    LET n == Len(c) IN
    IF n = 0 THEN Thrown("invalid_argument", {})
    ELSE IF target < getTimestampModern(kind, c, 1) \/ target > getTimestampModern(kind, c, n)
         THEN Thrown("out_of_range", RangeReads(getTimestampModern(kind, c, 1), n, target))
    ELSE LET lb == LowerBound([k \in 1..n |-> getTimestampModern(kind, c, k)],
                              target, 1, n, {1, n})
             it == lb.pos
         IN  IF it = n + 1 THEN Thrown("deref_end", lb.reads \cup {it})
             ELSE LET found_time == getTimestampModern(kind, c, it) IN
                  IF found_time = target THEN Found(it, it, lb.reads \cup {it})
                  ELSE IF it # 1 /\ getTimestampModern(kind, c, it - 1) <= target
                                 /\ target < found_time
                       THEN Found(it - 1, it, lb.reads \cup {it - 1, it})
                  ELSE Thrown("nullopt", lb.reads \cup {it} \cup ({it - 1} \cap (1..n)))

(* ---------------------------------------------------------------------- *)
(* Pose interpolators.                                                    *)
(* ---------------------------------------------------------------------- *)
(* 0.9995, the near-parallel threshold on the dot product *)
SlerpThreshold == Rat(9995, 10000)

(* norm > 1e-10, decided on the squared norm: norm^2 > 10^(-2 * NormEpsExp) *)
NormEpsExp == 10

NormAboveEps(norm2) == RAbovePow10(norm2, 2 * NormEpsExp)

Zero == RInt(0)

One == RInt(1)

(* variant: std::min and std::max exchanged *)
clamp_MinMaxExchanged(val, min_val, max_val) == RMin(min_val, RMax(max_val, val))

clamp(val, min_val, max_val) == RMax(min_val, RMin(max_val, val))

(* variant: the two weights exchanged *)
lerp_WeightsExchanged(a, b, factor) == RAdd(RMul(a, factor), RMul(b, RSub(One, factor)))

lerp(a, b, factor) == RAdd(RMul(a, RSub(One, factor)), RMul(b, factor))

dot_product(q1, q2) ==
    RAdd(RAdd(RMul(q1.w, q2.w), RMul(q1.x, q2.x)),
         RAdd(RMul(q1.y, q2.y), RMul(q1.z, q2.z)))

Negated(q) == Quaternion(RNeg(q.w), RNeg(q.x), RNeg(q.y), RNeg(q.z))

Norm2(q) == dot_product(q, q)

(* c / sqrt(norm2) *)
DivByNorm(c, norm2) == Surd(RSign(c), RDiv(RMul(c, c), norm2))

(* Quaternion::normalize *)
normalize(q) ==
    IF NormAboveEps(Norm2(q))
    THEN [kind |-> "value", w |-> DivByNorm(q.w, Norm2(q)), x |-> DivByNorm(q.x, Norm2(q)),
          y |-> DivByNorm(q.y, Norm2(q)), z |-> DivByNorm(q.z, Norm2(q))]
    ELSE QuatValue(Quaternion(One, Zero, Zero, Zero))

(* the normalization written inline in a2 modern: no else branch *)
NormalizeInline(q) ==
    IF NormAboveEps(Norm2(q))
    THEN [kind |-> "value", w |-> DivByNorm(q.w, Norm2(q)), x |-> DivByNorm(q.x, Norm2(q)),
          y |-> DivByNorm(q.y, Norm2(q)), z |-> DivByNorm(q.z, Norm2(q))]
    ELSE QuatValue(q)

(* sin(c * acos(dot)) / sin(acos(dot)) for 0 <= dot <= 0.9995 and 0 <= c <= 1, *)
(* where it is sign * sqrt(rational): 0 at c = 0, 1 at c = 1, and at c = 1/2   *)
(* sin(a/2)/sin(a) = 1/(2 cos(a/2)) = sqrt(1 / (2 (1 + dot))).                  *)
HasSinRatio(c) == c \in {Zero, One, Rat(1, 2)}

SinRatio(c, dot) ==
    IF c = Zero THEN Surd(0, Zero)
    ELSE IF c = One THEN Surd(1, One)
    ELSE Surd(1, RDiv(One, RMul(RInt(2), RAdd(One, dot))))

(* a * sqrt-valued factor *)
Scaled(a, f) == Surd(RSign(a) * f.s, RMul(RMul(a, a), f.q))

(* a * factor1 + b * factor2 for the factor pairs SinRatio yields *)
Blend(a, factor1, b, factor2) ==
    IF factor2.s = 0 THEN Scaled(a, factor1)
    ELSE IF factor1.s = 0 THEN Scaled(b, factor2)
    ELSE Scaled(RAdd(a, b), factor1)

(* the SLERP formula.  acos(dot) is NaN for |dot| > 1 and sin(angle) is 0  *)
(* for |dot| = 1: the result is then not a finite quaternion ("nan").      *)
(* Outside the factors above the result is kept as the term                *)
(* slerp(q1, q2, t).                                                       *)
SlerpFormula(q1, q2, t, dot) ==
    IF ~RLess(dot, One) \/ ~RLess(RNeg(One), dot)
    THEN [kind |-> "nan"]
    ELSE IF HasSinRatio(t)
    THEN LET factor1 == SinRatio(RSub(One, t), dot)
             factor2 == SinRatio(t, dot)
         IN  [kind |-> "value", w |-> Blend(q1.w, factor1, q2.w, factor2),
              x |-> Blend(q1.x, factor1, q2.x, factor2),
              y |-> Blend(q1.y, factor1, q2.y, factor2),
              z |-> Blend(q1.z, factor1, q2.z, factor2)]
    ELSE [kind |-> "slerp", q1 |-> q1, q2 |-> q2, t |-> t]

LerpQuat(q1, q2, t) ==
    Quaternion(lerp(q1.w, q2.w, t), lerp(q1.x, q2.x, t), lerp(q1.y, q2.y, t),
               lerp(q1.z, q2.z, t))

LerpPosition(p1, p2, t) ==
    Vector3(lerp(p1.x, p2.x, t), lerp(p1.y, p2.y, t), lerp(p1.z, p2.z, t))

(* variant: q2 is negated and dot is left as it is *)
ShortestPath_DotKept(q1, q2) ==
    [q1 |-> q1,
     q2 |-> IF RLess(dot_product(q1, q2), Zero) THEN Negated(q2) ELSE q2,
     dot |-> dot_product(q1, q2),
     dot0 |-> dot_product(q1, q2),
     negated |-> RLess(dot_product(q1, q2), Zero)]

(* variant: no sign correction *)
ShortestPath_NeverNegated(q1, q2) ==
    [q1 |-> q1, q2 |-> q2, dot |-> dot_product(q1, q2), dot0 |-> dot_product(q1, q2),
     negated |-> FALSE]

(* "if (dot < 0.0) { q2 = -q2; dot = -dot; }": the pair the rest of the    *)
(* interpolation works on, dot0 the dot product of the inputs              *)
ShortestPath(q1, q2) ==
    LET dot0 == dot_product(q1, q2)
    IN  [q1 |-> q1,
         q2 |-> IF RLess(dot0, Zero) THEN Negated(q2) ELSE q2,
         dot |-> IF RLess(dot0, Zero) THEN RNeg(dot0) ELSE dot0,
         dot0 |-> dot0,
         negated |-> RLess(dot0, Zero)]

(* variant: only a dot product above 1 counts as near-parallel *)
NearParallel_AboveOne(dot) == RLess(One, dot)

(* variant: the threshold itself counts as near-parallel *)
NearParallel_Inclusive(dot) == ~RLess(dot, SlerpThreshold)

(* "if (dot > 0.9995)" *)
NearParallel(dot) == RLess(SlerpThreshold, dot)

(* What the orientation part of an interpolator did: the sign-corrected    *)
(* pair, the branch, the normalization step applied to the quaternion of   *)
(* squared norm norm2 ("divided", "identity", "kept" or "none"), and the   *)
(* orientation returned.                                                   *)
LinearSteps(sp, norm_step, norm2, value) ==
    [q1 |-> sp.q1, q2 |-> sp.q2, dot |-> sp.dot, dot0 |-> sp.dot0,
     negated |-> sp.negated, branch |-> "linear", norm_step |-> norm_step,
     norm2 |-> norm2, value |-> value]

SlerpSteps(sp, value) ==
    [q1 |-> sp.q1, q2 |-> sp.q2, dot |-> sp.dot, dot0 |-> sp.dot0,
     negated |-> sp.negated, branch |-> "slerp", norm_step |-> "none",
     norm2 |-> Zero, value |-> value]

(* a2 / a3 traditional: the orientation part of interpolatePose *)
slerpTraditional(q1, q2, t) ==
    LET sp == ShortestPath(q1, q2)
        interp_orientation == LerpQuat(sp.q1, sp.q2, t)
    IN  IF NearParallel(sp.dot)
        THEN LinearSteps(sp, IF NormAboveEps(Norm2(interp_orientation))
                             THEN "divided" ELSE "identity",
                         Norm2(interp_orientation), normalize(interp_orientation))
        ELSE SlerpSteps(sp, SlerpFormula(sp.q1, sp.q2, t, sp.dot))

(* a2 modern: the lambda slerp, normalization inline; lerped is its local  *)
(* result *)
slerpModernA2(q1, q2, factor) ==
    LET sp == ShortestPath(q1, q2)
        lerped == LerpQuat(sp.q1, sp.q2, factor)
    IN  IF NearParallel(sp.dot)
        THEN LinearSteps(sp, IF NormAboveEps(Norm2(lerped)) THEN "divided" ELSE "kept",
                         Norm2(lerped), NormalizeInline(lerped))
        ELSE SlerpSteps(sp, SlerpFormula(sp.q1, sp.q2, factor, sp.dot))

(* a3 modern: the lambda slerp, lerped.normalize(); lerped is its local    *)
(* result *)
slerpModernA3(q1, q2, factor) ==
    LET sp == ShortestPath(q1, q2)
        lerped == LerpQuat(sp.q1, sp.q2, factor)
    IN  IF NearParallel(sp.dot)
        THEN LinearSteps(sp, IF NormAboveEps(Norm2(lerped)) THEN "divided" ELSE "identity",
                         Norm2(lerped), normalize(lerped))
        ELSE SlerpSteps(sp, SlerpFormula(sp.q1, sp.q2, factor, sp.dot))

(* a2 / a3 traditional (the two bodies are the same) *)
interpolatePose(pose1, pose2, t0) ==
    LET t == RMax(Zero, RMin(One, t0))
    IN  Pose(LerpPosition(pose1.position, pose2.position, t),
             slerpTraditional(pose1.orientation, pose2.orientation, t).value)

(* a2 modern *)
interpolatePoseModernA2(pose1, pose2, t) ==
    LET t_clamped == clamp(t, Zero, One)
    IN  Pose(LerpPosition(pose1.position, pose2.position, t_clamped),
             slerpModernA2(pose1.orientation, pose2.orientation, t_clamped).value)

(* a3 modern *)
interpolatePoseModernA3(pose1, pose2, t) ==
    LET t_clamped == clamp(t, Zero, One)
    IN  Pose(LerpPosition(pose1.position, pose2.position, t_clamped),
             slerpModernA3(pose1.orientation, pose2.orientation, t_clamped).value)

(* ---------------------------------------------------------------------- *)
(* Top-level queries.  An outcome is the TimedPose returned or the        *)
(* exception that leaves the function; path names the return statement    *)
(* taken and divided tells whether (t2 - t1) was divided by.              *)
(* ---------------------------------------------------------------------- *)
NoValue == [time_stamp |-> -1, pose |-> "none"]

Ok(tp, path, divided) == [kind |-> "ok", value |-> tp, path |-> path, divided |-> divided]

Raised(what) == [kind |-> what, value |-> NoValue, path |-> "throw", divided |-> FALSE]

(* variant: the factor measured from the second sample *)
Factor_FromSecond(target, t1, t2) == RDiv(RInt(t2 - target), RInt(t2 - t1))

(* (target_time - t1) / (t2 - t1) *)
Factor(target, t1, t2) == RDiv(RInt(target - t1), RInt(t2 - t1))

(* a2 traditional *)
interpolateTimedPoseA2(poses, target) ==
    LET nb == findNeighborPoseIndices(poses, target) IN
    IF nb.kind # "pair" THEN Raised(nb.kind)
    ELSE IF nb.first = nb.second THEN Ok(Returned(poses[nb.first]), "exact", FALSE)
    ELSE LET t1 == poses[nb.first].time_stamp
             t2 == poses[nb.second].time_stamp
         IN  IF t2 = t1 THEN Raised("zero_denominator")
             ELSE Ok(TimedPose(target, interpolatePose(poses[nb.first].pose,
                        poses[nb.second].pose, Factor(target, t1, t2))), "interpolated", TRUE)

(* variant: a failed search is answered with a default-constructed TimedPose *)
interpolateTimedPoseModernA2_DefaultOnFailure(poses, target) ==
    LET nb == findNeighborPoseIndicesModern(poses, target) IN
    IF nb.kind # "pair"
    THEN Ok(Returned(TimedPose(0, Pose(Vector3(Zero, Zero, Zero),
                                       Quaternion(One, Zero, Zero, Zero)))), "default", FALSE)
    ELSE IF nb.first = nb.second THEN Ok(Returned(poses[nb.first]), "exact", FALSE)
    ELSE IF nb.second = Len(poses) + 1 THEN Raised("deref_end")
    ELSE LET t1 == poses[nb.first].time_stamp
             t2 == poses[nb.second].time_stamp
         IN  IF t2 = t1 THEN Raised("zero_denominator")
             ELSE Ok(TimedPose(target, interpolatePoseModernA2(poses[nb.first].pose,
                        poses[nb.second].pose, Factor(target, t1, t2))), "interpolated", TRUE)

(* a2 modern *)
interpolateTimedPoseModernA2(poses, target) ==
    LET nb == findNeighborPoseIndicesModern(poses, target) IN
    IF nb.kind = "nullopt" THEN Raised("runtime_error")
    ELSE IF nb.kind # "pair" THEN Raised(nb.kind)
    ELSE IF nb.first = nb.second THEN Ok(Returned(poses[nb.first]), "exact", FALSE)
    ELSE IF nb.second = Len(poses) + 1 THEN Raised("deref_end")
    ELSE LET t1 == poses[nb.first].time_stamp
             t2 == poses[nb.second].time_stamp
         IN  IF t2 = t1 THEN Raised("zero_denominator")
             ELSE Ok(TimedPose(target, interpolatePoseModernA2(poses[nb.first].pose,
                        poses[nb.second].pose, Factor(target, t1, t2))), "interpolated", TRUE)

(* a3 traditional, from the neighbours the search returned *)
interpolateTimedPoseA3From(nb, kind, c, target) ==
    IF nb.kind # "pair" THEN Raised(nb.kind)
    ELSE IF nb.first = nb.second THEN Ok(Returned(getTimedPose(kind, c, nb.first)), "exact", FALSE)
    ELSE LET p1 == getTimedPose(kind, c, nb.first)
             p2 == getTimedPose(kind, c, nb.second)
             t1 == getTimestamp(kind, c, nb.first)
             t2 == getTimestamp(kind, c, nb.second)
         IN  IF t2 = t1 THEN Raised("zero_denominator")
             ELSE Ok(TimedPose(target, interpolatePose(p1.pose, p2.pose,
                        Factor(target, t1, t2))), "interpolated", TRUE)

(* a3 traditional *)
interpolateTimedPoseA3(kind, c, target) ==
    interpolateTimedPoseA3From(findNeighborPoseIterators(kind, c, target), kind, c, target)

(* variant: the guard returns the later sample (`return p2`) *)
interpolateTimedPoseModernA3From_GuardReturnsSecond(nb, kind, c, target) ==
    IF nb.kind = "nullopt" THEN Raised("runtime_error")
    ELSE IF nb.kind # "pair" THEN Raised(nb.kind)
    ELSE IF nb.first = nb.second
         THEN Ok(Returned(getTimedPoseModern(kind, c, nb.first)), "exact", FALSE)
    ELSE LET p1 == getTimedPoseModern(kind, c, nb.first)
             p2 == getTimedPoseModern(kind, c, nb.second)
             t1 == getTimestampModern(kind, c, nb.first)
             t2 == getTimestampModern(kind, c, nb.second)
         IN  IF Abs(t2 - t1) < DenominatorEps THEN Ok(Returned(p2), "guard", FALSE)
             ELSE Ok(TimedPose(target, interpolatePoseModernA3(p1.pose, p2.pose,
                        Factor(target, t1, t2))), "interpolated", TRUE)

(* a3 modern, from the neighbours the search returned: the only query with *)
(* the |t2 - t1| < 1e-9 guard                                              *)
interpolateTimedPoseModernA3From(nb, kind, c, target) ==
    IF nb.kind = "nullopt" THEN Raised("runtime_error")
    ELSE IF nb.kind # "pair" THEN Raised(nb.kind)
    ELSE IF nb.first = nb.second
         THEN Ok(Returned(getTimedPoseModern(kind, c, nb.first)), "exact", FALSE)
    ELSE LET p1 == getTimedPoseModern(kind, c, nb.first)
             p2 == getTimedPoseModern(kind, c, nb.second)
             t1 == getTimestampModern(kind, c, nb.first)
             t2 == getTimestampModern(kind, c, nb.second)
         IN  IF Abs(t2 - t1) < DenominatorEps THEN Ok(Returned(p1), "guard", FALSE)
             ELSE Ok(TimedPose(target, interpolatePoseModernA3(p1.pose, p2.pose,
                        Factor(target, t1, t2))), "interpolated", TRUE)

(* a3 modern *)
interpolateTimedPoseModernA3(kind, c, target) ==
    interpolateTimedPoseModernA3From(findNeighborPoseIteratorsModern(kind, c, target),
                                     kind, c, target)

(* ---------------------------------------------------------------------- *)
(* The state machine: a caller holds pose_data, picks a query time and    *)
(* calls one of the four queries; main() then moves to its next test time.*)
(* ---------------------------------------------------------------------- *)
R(n, d) == Rat(n, d)

(* samples in the style of main(): a unit orientation, and the two-decimal *)
(* rounding of (0.7071, 0, 0.7071, 0), whose norm is not 1                 *)
Samples ==
    LET SamplePoses ==
            { Pose(Vector3(Zero, Zero, Zero), Quaternion(One, Zero, Zero, Zero)),
              Pose(Vector3(One, Zero, Zero),
                   Quaternion(R(71, 100), Zero, R(71, 100), Zero)) }
    IN  {TimedPose(t, p) : t \in 0..MaxTime, p \in SamplePoses}

Targets == (0 - 1)..(MaxTime + 1)

StrictlyIncreasing(data) ==
    \A k \in 1..(Len(data) - 1) : data[k].time_stamp < data[k + 1].time_stamp

(* the trajectories of the queries: timestamps that do not decrease *)
Trajectories ==
    UNION { {d \in [1..n -> Samples] :
                \A k \in 1..(n - 1) : d[k].time_stamp <= d[k + 1].time_stamp}
            : n \in 0..MaxLen }

NoNeighbors == Thrown("none", {})

NoResult == Raised("none")

NoPose == Pose(Vector3(Zero, Zero, Zero), Quaternion(One, Zero, Zero, Zero))

NoCall == [called |-> FALSE]

(* the threads that query one trajectory at the same time *)
Threads == {"t1", "t2"}

(* no thread has called a query *)
ConcIdle ==
    /\ callers = [th \in Threads |->
                     [pc |-> "idle", impl |-> "none", target |-> 0,
                      neighbors |-> NoNeighbors, result |-> NoResult]]
    /\ overlapped = FALSE

(* no parallel for-each is called *)
ParIdle ==
    /\ variant = "none"
    /\ hardware_concurrency = 0
    /\ total_size = 0
    /\ copy_index = [kind |-> "none", slot |-> 0]
    /\ par_pc = "idle"
    /\ num_threads = 0
    /\ block_size = 0
    /\ block_begin = 0
    /\ threads = <<>>
    /\ own_it = 0
    /\ applied = <<>>
    /\ squares = <<>>

(* SolveResult result: success = false, iterations = 0, error = 0.0 *)
DefaultResult == [solution |-> <<>>, success |-> FALSE, iterations |-> 0, error2 |-> Zero]

(* solveWithManualJacobi is not called *)
JacobiIdle ==
    /\ mat_A = [rows |-> 0, cols |-> 0, at |-> <<>>]
    /\ vec_b = <<>>
    /\ max_iterations = 0
    /\ tolerance = Zero
    /\ jacobi_pc = "idle"
    /\ vec_x = <<>>
    /\ iter = 0
    /\ solve_result = DefaultResult

Init ==
    /\ pose_data \in Trajectories
    /\ target_time \in Targets
    /\ pc = "ready"
    /\ impl = "none"
    /\ container = "vector"
    /\ neighbors = NoNeighbors
    /\ result = NoResult
    /\ arg_pose1 = NoPose
    /\ arg_pose2 = NoPose
    /\ arg_t = Zero
    /\ interpolated = NoCall
    /\ ConcIdle
    /\ ParIdle
    /\ JacobiIdle

CallInterpolateTimedPoseA2 ==
    /\ pc = "ready"
    /\ impl' = "a2_traditional"
    /\ container' = "vector"
    /\ neighbors' = findNeighborPoseIndices(pose_data, target_time)
    /\ result' = interpolateTimedPoseA2(pose_data, target_time)
    /\ pc' = "done"
    /\ UNCHANGED <<pose_data, target_time>>
    /\ UNCHANGED <<call_vars, extra_vars>>

CallInterpolateTimedPoseModernA2 ==
    /\ pc = "ready"
    /\ impl' = "a2_modern"
    /\ container' = "vector"
    /\ neighbors' = findNeighborPoseIndicesModern(pose_data, target_time)
    /\ result' = interpolateTimedPoseModernA2(pose_data, target_time)
    /\ pc' = "done"
    /\ UNCHANGED <<pose_data, target_time>>
    /\ UNCHANGED <<call_vars, extra_vars>>

CallInterpolateTimedPoseA3 ==
    /\ pc = "ready"
    /\ \E kind \in Containers :
         /\ container' = kind
         /\ neighbors' = findNeighborPoseIterators(kind, BuildContainer(kind, pose_data),
                                                   target_time)
         /\ result' = interpolateTimedPoseA3(kind, BuildContainer(kind, pose_data),
                                             target_time)
    /\ impl' = "a3_traditional"
    /\ pc' = "done"
    /\ UNCHANGED <<pose_data, target_time>>
    /\ UNCHANGED <<call_vars, extra_vars>>

CallInterpolateTimedPoseModernA3 ==
    /\ pc = "ready"
    /\ \E kind \in Containers :
         /\ container' = kind
         /\ neighbors' = findNeighborPoseIteratorsModern(kind,
                            BuildContainer(kind, pose_data), target_time)
         /\ result' = interpolateTimedPoseModernA3(kind, BuildContainer(kind, pose_data),
                                                   target_time)
    /\ impl' = "a3_modern"
    /\ pc' = "done"
    /\ UNCHANGED <<pose_data, target_time>>
    /\ UNCHANGED <<call_vars, extra_vars>>

(* for (double time : test_times): the next query on the same data *)
NextTestTime ==
    /\ pc = "done"
    /\ target_time' \in Targets
    /\ pc' = "ready"
    /\ impl' = "none"
    /\ container' = "vector"
    /\ neighbors' = NoNeighbors
    /\ result' = NoResult
    /\ UNCHANGED pose_data
    /\ UNCHANGED <<call_vars, extra_vars>>

Next ==
    \/ CallInterpolateTimedPoseA2
    \/ CallInterpolateTimedPoseModernA2
    \/ CallInterpolateTimedPoseA3
    \/ CallInterpolateTimedPoseModernA3
    \/ NextTestTime

Spec == Init /\ [][Next]_vars

(* ---------------------------------------------------------------------- *)
(* Calls of the interpolators on their own: interpolatePose and           *)
(* interpolatePoseModern take any two poses and any factor, and           *)
(* Quaternion::normalize any quaternion.                                  *)
(* ---------------------------------------------------------------------- *)
Qid == Quaternion(One, Zero, Zero, Zero)

Qy == Quaternion(Zero, Zero, One, Zero)

(* unit, dot 0.6 with Qid *)
Q345 == Quaternion(R(3, 5), R(4, 5), Zero, Zero)

(* unit, dot 0.99959.. with Qid *)
Qnear == Quaternion(R(4899, 4901), R(140, 4901), Zero, Zero)

(* (1e-11, 0, 0, 0) and (1e11, 0, 0, 0): dot product 1 *)
Qtiny == Quaternion(RScale10(One, 0 - 11), Zero, Zero, Zero)

Qhuge == Quaternion(RScale10(One, 11), Zero, Zero, Zero)

(* with the others: the quaternion whose dot product with Qid is the     *)
(* threshold itself, the two-decimal rounding used by Spec, and zero     *)
Orientations ==
    {Qid, Negated(Qid), Qy, Q345, Negated(Q345),
     Quaternion(SlerpThreshold, Zero, Zero, Zero),
     Quaternion(R(71, 100), Zero, R(71, 100), Zero),
     Quaternion(Zero, Zero, Zero, Zero)}

(* the last pair: (1e-10, 0, 0, 0), of norm the epsilon itself, and      *)
(* (1e10, 0, 0, 0)                                                       *)
ExtremePairs ==
    {<<Qtiny, Qhuge>>, <<Qhuge, Qtiny>>,
     <<Quaternion(RScale10(One, 0 - NormEpsExp), Zero, Zero, Zero),
       Quaternion(RScale10(One, NormEpsExp), Zero, Zero, Zero)>>}

(* the factors k / d between -1 and 2 *)
Factors == UNION { {R(k, d) : k \in (0 - d)..(2 * d)} : d \in 1..MaxFactorDen }

(* 1e-11 * (1 - t) + 1e11 * t at a factor inside (0, 1) does not fit the  *)
(* integers of the checker: the extreme pairs are called at the ends only *)
InRange(q1, q2, t0) ==
    <<q1, q2>> \in ExtremePairs => ~(RLess(Zero, t0) /\ RLess(t0, One))

InitInterp ==
    /\ pose_data = <<>>
    /\ target_time = 0
    /\ pc = "ready"
    /\ impl = "none"
    /\ container = "vector"
    /\ neighbors = NoNeighbors
    /\ result = NoResult
    /\ LET PositionPairs ==
               { <<Vector3(Zero, Zero, Zero), Vector3(RInt(2), Zero, Zero)>>,
                 <<Vector3(One, RInt(0 - 1), RInt(3)), Vector3(Zero, R(1, 2), Zero)>> }
           OrientationPairs ==
               (Orientations \X Orientations)
                 \cup {<<Qid, Qnear>>, <<Qnear, Qid>>, <<Qnear, Negated(Qnear)>>}
                 \cup ExtremePairs
       IN  \E pp \in PositionPairs, qq \in OrientationPairs :
              /\ arg_pose1 = Pose(pp[1], qq[1])
              /\ arg_pose2 = Pose(pp[2], qq[2])
    /\ arg_t \in Factors
    /\ InRange(arg_pose1.orientation, arg_pose2.orientation, arg_t)
    /\ interpolated = NoCall
    /\ ConcIdle
    /\ ParIdle
    /\ JacobiIdle

Called(steps, pose) == [called |-> TRUE, steps |-> steps, pose |-> pose]

(* a2 / a3 traditional interpolatePose(arg_pose1, arg_pose2, arg_t) *)
CallInterpolatePose ==
    /\ pc = "ready"
    /\ impl' \in {"a2_traditional", "a3_traditional"}
    /\ interpolated' = Called(slerpTraditional(arg_pose1.orientation, arg_pose2.orientation,
                                               RMax(Zero, RMin(One, arg_t))),
                              interpolatePose(arg_pose1, arg_pose2, arg_t))
    /\ pc' = "done"
    /\ UNCHANGED <<arg_pose1, arg_pose2, arg_t>>
    /\ UNCHANGED <<query_vars, extra_vars>>

CallInterpolatePoseModernA2 ==
    /\ pc = "ready"
    /\ impl' = "a2_modern"
    /\ interpolated' = Called(slerpModernA2(arg_pose1.orientation, arg_pose2.orientation,
                                            clamp(arg_t, Zero, One)),
                              interpolatePoseModernA2(arg_pose1, arg_pose2, arg_t))
    /\ pc' = "done"
    /\ UNCHANGED <<arg_pose1, arg_pose2, arg_t>>
    /\ UNCHANGED <<query_vars, extra_vars>>

CallInterpolatePoseModernA3 ==
    /\ pc = "ready"
    /\ impl' = "a3_modern"
    /\ interpolated' = Called(slerpModernA3(arg_pose1.orientation, arg_pose2.orientation,
                                            clamp(arg_t, Zero, One)),
                              interpolatePoseModernA3(arg_pose1, arg_pose2, arg_t))
    /\ pc' = "done"
    /\ UNCHANGED <<arg_pose1, arg_pose2, arg_t>>
    /\ UNCHANGED <<query_vars, extra_vars>>

(* q.normalize() on arg_pose1.orientation *)
CallNormalize ==
    /\ pc = "ready"
    /\ impl' = "normalize"
    /\ interpolated' =
         Called([branch |-> "none",
                 norm_step |-> IF NormAboveEps(Norm2(arg_pose1.orientation))
                               THEN "divided" ELSE "identity",
                 norm2 |-> Norm2(arg_pose1.orientation),
                 value |-> normalize(arg_pose1.orientation)],
                Pose(arg_pose1.position, normalize(arg_pose1.orientation)))
    /\ pc' = "done"
    /\ UNCHANGED <<arg_pose1, arg_pose2, arg_t>>
    /\ UNCHANGED <<query_vars, extra_vars>>

(* the next call on the same poses *)
NextFactor ==
    /\ pc = "done"
    /\ arg_t' \in Factors
    /\ InRange(arg_pose1.orientation, arg_pose2.orientation, arg_t')
    /\ pc' = "ready"
    /\ impl' = "none"
    /\ interpolated' = NoCall
    /\ UNCHANGED <<arg_pose1, arg_pose2>>
    /\ UNCHANGED <<query_vars, extra_vars>>

NextInterp ==
    \/ CallInterpolatePose
    \/ CallInterpolatePoseModernA2
    \/ CallInterpolatePoseModernA3
    \/ CallNormalize
    \/ NextFactor

SpecInterp == InitInterp /\ [][NextInterp]_vars

(* ---------------------------------------------------------------------- *)
(* Vocabulary of the properties.                                          *)
(* ---------------------------------------------------------------------- *)
Done == pc = "done"

(* the container the query ran on, and its projections *)
Queried == BuildContainer(container, pose_data)

N == Len(Queried)

TsAt(k) == getTimestamp(container, Queried, k)

SampleAt(k) == getTimedPose(container, Queried, k)

IsExact == neighbors.kind = "pair" /\ neighbors.first = neighbors.second

IsBracket == neighbors.kind = "pair" /\ neighbors.first # neighbors.second

Traditional == impl \in {"a2_traditional", "a3_traditional"}

Modern == impl \in {"a2_modern", "a3_modern"}

(* the interpolator of the implementation that ran *)
InterpolatorOf(pose1, pose2, t) ==
    IF Traditional THEN interpolatePose(pose1, pose2, t)
    ELSE IF impl = "a2_modern" THEN interpolatePoseModernA2(pose1, pose2, t)
    ELSE interpolatePoseModernA3(pose1, pose2, t)

(* ---------------------------------------------------------------------- *)
(* Properties of the queries (checked under Spec).                        *)
(* ---------------------------------------------------------------------- *)

(* C1: for every non-empty trajectory and every sample s of it, the query  *)
(* at s.timestamp returns a pose identical to s.pose, in every             *)
(* implementation.  Stated on the trajectories with strictly increasing    *)
(* timestamps, the well-formed ones among the non-decreasing trajectories  *)
(* the claim covers: there the sample at a timestamp is unique.            *)
C1_ExactMatchIdentity ==
    (Done /\ StrictlyIncreasing(pose_data)) => \A k \in 1..N :
               TsAt(k) = target_time
                  => /\ result.kind = "ok"
                     /\ result.value.pose = Returned(SampleAt(k)).pose

(* C2: when target_time is the timestamp of some sample, the locator       *)
(* returns Exact(i) with trajectory[i].timestamp = target_time, never two  *)
(* distinct positions.                                                     *)
C2_ExactHitOnEverySample ==
    (Done /\ \E k \in 1..N : TsAt(k) = target_time)
        => /\ IsExact
           /\ TsAt(neighbors.first) = target_time

(* C3: a bracketing pair (i, j) has j = i + 1 and                          *)
(* trajectory[i].timestamp < target_time < trajectory[j].timestamp,        *)
(* both strict.                                                            *)
C3_BracketStrict ==
    (Done /\ IsBracket)
        => /\ neighbors.second = neighbors.first + 1
           /\ TsAt(neighbors.first) < target_time
           /\ target_time < TsAt(neighbors.second)

(* C4: on a non-empty trajectory a target_time below the first or above    *)
(* the last timestamp fails with out_of_range in the locator and in the    *)
(* query, and no pose is returned.                                         *)
C4_OutOfRangeRejected ==
    (Done /\ N > 0 /\ (target_time < TsAt(1) \/ target_time > TsAt(N)))
        => /\ neighbors.kind = "out_of_range"
           /\ result.kind = "out_of_range"
           /\ result.value = NoValue

(* the case of C4 happened above the last sample, in a3 traditional *)
C4_Witness ==
    /\ Done /\ N > 1 /\ target_time > TsAt(N)
    /\ impl = "a3_traditional"
    /\ result.kind = "out_of_range"

(* C5: a query on an empty trajectory fails with invalid_argument          *)
(* (EmptyTrajectory) for every target_time, never with out_of_range, and   *)
(* dereferences no element.                                                *)
C5_EmptyTrajectory ==
    (Done /\ N = 0)
        => /\ neighbors.kind = "invalid_argument"
           /\ result.kind = "invalid_argument"
           /\ neighbors.reads = {}

(* the case of C5 happened: a3 modern ran on an empty map *)
C5_Witness ==
    /\ Done /\ N = 0
    /\ impl = "a3_modern" /\ container = "map"
    /\ result.kind = "invalid_argument"

(* C6 as stated: on a non-empty non-decreasing trajectory of length n, a   *)
(* query at the first timestamp returns Exact at the first position, a     *)
(* query at the last timestamp returns Exact at the last position n, and   *)
(* neither fails with out_of_range.                                        *)
C6_AsStated ==
    (Done /\ N > 0)
        => /\ target_time = TsAt(1)
                => neighbors.kind = "pair" /\ neighbors.first = 1 /\ neighbors.second = 1
           /\ target_time = TsAt(N)
                => neighbors.kind = "pair" /\ neighbors.first = N /\ neighbors.second = N

(* C6 amended: a query at the first timestamp returns Exact at the first   *)
(* position; a query at the last timestamp returns Exact at a sample with  *)
(* that timestamp, which is the last position whenever the last timestamp  *)
(* is greater than the one before it; neither query fails.                 *)
C6_BoundaryExact ==
    (Done /\ N > 0)
        => /\ target_time = TsAt(1)
                => neighbors.kind = "pair" /\ neighbors.first = 1 /\ neighbors.second = 1
           /\ target_time = TsAt(N)
                => /\ IsExact
                   /\ TsAt(neighbors.first) = target_time
                   /\ (N = 1 \/ TsAt(N - 1) < TsAt(N)) => neighbors.first = N
           /\ target_time \in {TsAt(1), TsAt(N)}
                => result.kind = "ok" /\ result.path = "exact"

(* the case of C6 happened: the last of three or more distinct timestamps  *)
(* was queried through the binary search                                   *)
C6_Witness ==
    /\ Done /\ N > 2 /\ target_time = TsAt(N) /\ TsAt(1) < TsAt(N)
    /\ impl = "a2_modern"
    /\ neighbors.first = N /\ neighbors.second = N

(* C7: when several consecutive samples share a timestamp, a query at that *)
(* timestamp returns the first sample carrying it.                         *)
C7_FirstExactMatchWins ==
    (Done /\ \E k \in 1..(N - 1) : TsAt(k) = target_time /\ TsAt(k + 1) = target_time)
        => /\ IsExact
           /\ TsAt(neighbors.first) = target_time
           /\ \A j \in 1..(neighbors.first - 1) : TsAt(j) # target_time

(* C8: on a single-element trajectory the query succeeds, returning that   *)
(* element as an exact hit, iff target_time is its timestamp; any other    *)
(* target_time fails with out_of_range; nothing but the single element is  *)
(* ever dereferenced.                                                      *)
C8_SingleElement ==
    (Done /\ N = 1)
        => /\ target_time = TsAt(1)
                => /\ neighbors.kind = "pair" /\ neighbors.first = 1 /\ neighbors.second = 1
                   /\ result.kind = "ok" /\ result.value = Returned(SampleAt(1))
           /\ target_time # TsAt(1)
                => neighbors.kind = "out_of_range" /\ result.kind = "out_of_range"
           /\ neighbors.reads \subseteq {1}

(* the case of C8 happened: the linear scan hit the only element *)
C8_Witness ==
    /\ Done /\ N = 1 /\ target_time = TsAt(1)
    /\ impl = "a2_traditional"
    /\ result.kind = "ok"

(* C9: the query fails exactly when the locator fails, with the same kind; *)
(* no pose stands in for a failure; on a non-decreasing trajectory the     *)
(* only failures are invalid_argument and out_of_range.                    *)
C9_FailuresPropagate ==
    Done => /\ result.kind = "ok" <=> neighbors.kind = "pair"
            /\ neighbors.kind # "pair"
                 => result.kind = neighbors.kind /\ result.value = NoValue
            /\ neighbors.kind \in {"pair", "invalid_argument", "out_of_range"}
            /\ result.kind \in {"ok", "invalid_argument", "out_of_range"}

(* the case of C9 happened: a2 modern passed an out_of_range on *)
C9_Witness ==
    /\ Done /\ impl = "a2_modern"
    /\ neighbors.kind = "out_of_range" /\ result.kind = "out_of_range"

(* C10: on a bracketing pair (i, j) whose timestamps differ by less than   *)
(* 1e-9 the query returns trajectory[i] and does not divide by (t_j - t_i),*)
(* in every implementation.                                                *)
C10_DenominatorGuardEverywhere ==
    (Done /\ IsBracket
          /\ Abs(TsAt(neighbors.second) - TsAt(neighbors.first)) < DenominatorEps)
        => /\ result.kind = "ok"
           /\ result.value = Returned(SampleAt(neighbors.first))
           /\ ~result.divided

(* C11: on a bracketing pair (i, j) whose timestamps are at least 1e-9     *)
(* apart, the query returns a TimedPose with timestamp target_time and     *)
(* pose interpolate(trajectory[i].pose, trajectory[j].pose, t),            *)
(* t = (target_time - t_i) / (t_j - t_i): nothing but the two bracketing   *)
(* samples and target_time enters the result.                              *)
C11_InterpolatedFromBracket ==
    (Done /\ IsBracket
          /\ Abs(TsAt(neighbors.second) - TsAt(neighbors.first)) >= DenominatorEps)
        => /\ result.kind = "ok"
           /\ result.value.time_stamp = target_time
           /\ result.value.pose =
                 InterpolatorOf(SampleAt(neighbors.first).pose,
                                SampleAt(neighbors.second).pose,
                                RDiv(RInt(target_time - TsAt(neighbors.first)),
                                     RInt(TsAt(neighbors.second) - TsAt(neighbors.first))))

(* the case of C11 happened: a3 modern interpolated strictly inside a pair *)
(* of different poses of a three-sample map                                *)
C11_Witness ==
    /\ Done /\ IsBracket /\ N = 3
    /\ impl = "a3_modern" /\ container = "map"
    /\ TsAt(neighbors.first) < target_time /\ target_time < TsAt(neighbors.second)
    /\ SampleAt(neighbors.first).pose # SampleAt(neighbors.second).pose
    /\ result.path = "interpolated"
    /\ result.value.time_stamp = target_time

(* ---------------------------------------------------------------------- *)
(* Properties of the interpolators (checked under SpecInterp).            *)
(* ---------------------------------------------------------------------- *)

(* an interpolator was called and has returned *)
InterpDone ==
    /\ pc = "done"
    /\ interpolated.called
    /\ impl \in {"a2_traditional", "a3_traditional", "a2_modern", "a3_modern"}

(* the orientation part of the implementation that ran *)
SlerpOf(q1, q2, t) ==
    IF Traditional THEN slerpTraditional(q1, q2, t)
    ELSE IF impl = "a2_modern" THEN slerpModernA2(q1, q2, t)
    ELSE slerpModernA3(q1, q2, t)

(* C12: interpolate never rejects a factor: a factor below 0 gives the     *)
(* result of factor 0, a factor above 1 the result of factor 1, and a      *)
(* factor inside [0, 1] is used as it is.                                  *)
C12_FactorClamped ==
    InterpDone
        => /\ RLess(arg_t, Zero)
                => interpolated.pose = InterpolatorOf(arg_pose1, arg_pose2, Zero)
           /\ RLess(One, arg_t)
                => interpolated.pose = InterpolatorOf(arg_pose1, arg_pose2, One)
           /\ (~RLess(arg_t, Zero) /\ ~RLess(One, arg_t))
                => /\ interpolated.pose.position =
                         Vector3(RAdd(RMul(arg_pose1.position.x, RSub(One, arg_t)),
                                      RMul(arg_pose2.position.x, arg_t)),
                                 RAdd(RMul(arg_pose1.position.y, RSub(One, arg_t)),
                                      RMul(arg_pose2.position.y, arg_t)),
                                 RAdd(RMul(arg_pose1.position.z, RSub(One, arg_t)),
                                      RMul(arg_pose2.position.z, arg_t)))
                   /\ interpolated.pose.orientation =
                         SlerpOf(arg_pose1.orientation, arg_pose2.orientation, arg_t).value

(* the case of C12 happened: a2 modern was called with a factor above 1    *)
(* and returned the second position                                        *)
C12_Witness ==
    /\ InterpDone /\ impl = "a2_modern"
    /\ RLess(One, arg_t)
    /\ arg_pose1.position # arg_pose2.position
    /\ interpolated.pose.position = arg_pose2.position

(* the factor of the call after clamping to [0, 1] *)
ClampedArg == IF RLess(arg_t, Zero) THEN Zero ELSE IF RLess(One, arg_t) THEN One ELSE arg_t

(* a * (1 - t) + b * t *)
BlendAt(a, b, t) == RAdd(RMul(a, RSub(One, t)), RMul(b, t))

(* C13: the interpolated position is pose_a.position * (1 - t) +           *)
(* pose_b.position * t, componentwise, of the clamped factor t: it is      *)
(* pose_a.position at t = 0 and pose_b.position at t = 1; between the      *)
(* positions (0,0,0) and (2,0,0) of samples at times 0 and 1 (0 and 2      *)
(* half-seconds) a query at time 0.5 (1 half-second) gives (1,0,0); and    *)
(* the position is the same whatever the two orientations are.             *)
C13_PositionBlend ==
    InterpDone
        => /\ interpolated.pose.position =
                 Vector3(BlendAt(arg_pose1.position.x, arg_pose2.position.x, ClampedArg),
                         BlendAt(arg_pose1.position.y, arg_pose2.position.y, ClampedArg),
                         BlendAt(arg_pose1.position.z, arg_pose2.position.z, ClampedArg))
           /\ ClampedArg = Zero => interpolated.pose.position = arg_pose1.position
           /\ ClampedArg = One => interpolated.pose.position = arg_pose2.position
           /\ ( /\ arg_pose1.position = Vector3(Zero, Zero, Zero)
                /\ arg_pose2.position = Vector3(RInt(2), Zero, Zero)
                /\ arg_t = Factor(1, 0, 2) )
                => interpolated.pose.position = Vector3(One, Zero, Zero)
           /\ \A q \in Orientations :
                /\ InterpolatorOf(Pose(arg_pose1.position, q),
                                  Pose(arg_pose2.position, Qy), arg_t).position
                     = interpolated.pose.position
                /\ InterpolatorOf(Pose(arg_pose1.position, Qid),
                                  Pose(arg_pose2.position, q), arg_t).position
                     = interpolated.pose.position

(* the case of C13 happened: a3 modern blended (0,0,0) and (2,0,0) at 0.5  *)
(* between two different orientations                                      *)
C13_Witness ==
    /\ InterpDone /\ impl = "a3_modern"
    /\ arg_pose1.position = Vector3(Zero, Zero, Zero)
    /\ arg_pose2.position = Vector3(RInt(2), Zero, Zero)
    /\ arg_pose1.orientation # arg_pose2.orientation
    /\ arg_t = R(1, 2)
    /\ interpolated.pose.position = Vector3(One, Zero, Zero)

(* the dot product of the two orientations handed to the interpolator *)
ArgDot == dot_product(arg_pose1.orientation, arg_pose2.orientation)

(* C14: the second quaternion is replaced by its componentwise negation    *)
(* iff the dot product of the two input orientations is negative, and the  *)
(* dot product is negated with it: the dot product the branch selection    *)
(* and the angle use is never negative; the first quaternion is used as    *)
(* it was given.                                                           *)
C14_SignCorrection ==
    InterpDone
        => /\ interpolated.steps.negated <=> RLess(ArgDot, Zero)
           /\ interpolated.steps.q2 = IF RLess(ArgDot, Zero)
                                      THEN Negated(arg_pose2.orientation)
                                      ELSE arg_pose2.orientation
           /\ interpolated.steps.dot = IF RLess(ArgDot, Zero) THEN RNeg(ArgDot) ELSE ArgDot
           /\ ~RLess(interpolated.steps.dot, Zero)
           /\ interpolated.steps.q1 = arg_pose1.orientation

(* the case of C14 happened: a2 traditional negated the second quaternion  *)
(* of a pair with negative dot product and went on to SLERP                *)
C14_Witness ==
    /\ InterpDone /\ impl = "a2_traditional"
    /\ RLess(ArgDot, Zero)
    /\ interpolated.steps.negated
    /\ interpolated.steps.q2 # arg_pose2.orientation
    /\ RLess(Zero, interpolated.steps.dot)
    /\ interpolated.steps.branch = "slerp"

(* the componentwise linear blend of the sign-corrected pair *)
ArgBlend ==
    Quaternion(BlendAt(interpolated.steps.q1.w, interpolated.steps.q2.w, ClampedArg),
               BlendAt(interpolated.steps.q1.x, interpolated.steps.q2.x, ClampedArg),
               BlendAt(interpolated.steps.q1.y, interpolated.steps.q2.y, ClampedArg),
               BlendAt(interpolated.steps.q1.z, interpolated.steps.q2.z, ClampedArg))

(* c / sqrt(norm2) *)
Over(c, norm2) == Surd(RSign(c), RDiv(RMul(c, c), norm2))

(* C15: when the sign-corrected dot product is strictly greater than       *)
(* 0.9995 the orientation is the componentwise linear blend of the two     *)
(* quaternions followed by a normalization step (which, on a norm above    *)
(* 1e-10, divides the blend by its norm); when it is less than or equal to *)
(* 0.9995, 0.9995 itself included, the orientation is                      *)
(* q_a * sin((1-t) angle)/sin(angle) + q_b * sin(t angle)/sin(angle) of    *)
(* the sign-corrected q_b, angle = acos(dot), with no normalization step.  *)
C15_BranchSelection ==
    InterpDone
        => /\ interpolated.pose.orientation = interpolated.steps.value
           /\ RLess(SlerpThreshold, interpolated.steps.dot)
                => /\ interpolated.steps.branch = "linear"
                   /\ interpolated.steps.norm_step # "none"
                   /\ interpolated.steps.norm2 = Norm2(ArgBlend)
                   /\ NormAboveEps(Norm2(ArgBlend))
                        => interpolated.steps.value =
                             [kind |-> "value",
                              w |-> Over(ArgBlend.w, Norm2(ArgBlend)),
                              x |-> Over(ArgBlend.x, Norm2(ArgBlend)),
                              y |-> Over(ArgBlend.y, Norm2(ArgBlend)),
                              z |-> Over(ArgBlend.z, Norm2(ArgBlend))]
           /\ ~RLess(SlerpThreshold, interpolated.steps.dot)
                => /\ interpolated.steps.branch = "slerp"
                   /\ interpolated.steps.norm_step = "none"
                   /\ interpolated.steps.value =
                         SlerpFormula(interpolated.steps.q1, interpolated.steps.q2,
                                      ClampedArg, interpolated.steps.dot)

(* the case of C15 happened: a2 modern met a dot product of exactly 0.9995 *)
(* inside (0, 1) and took the SLERP formula                                *)
C15_Witness ==
    /\ InterpDone /\ impl = "a2_modern"
    /\ interpolated.steps.dot = SlerpThreshold
    /\ arg_t = R(1, 2)
    /\ interpolated.steps.branch = "slerp"
    /\ interpolated.steps.value.kind = "value"

(* q has norm 1 *)
IsUnit(q) == Norm2(q) = One

(* C16: for a unit quaternion q and a factor strictly between 0 and 1,     *)
(* interpolating the orientation between q and -q yields q (up to sign):   *)
(* the sign correction makes the second input equal to the first, the      *)
(* near-parallel branch is taken, and the blend has norm 1, not 0.         *)
C16_AntipodalYieldsSame ==
    ( /\ InterpDone
      /\ IsUnit(arg_pose1.orientation)
      /\ arg_pose2.orientation = Negated(arg_pose1.orientation)
      /\ RLess(Zero, arg_t) /\ RLess(arg_t, One) )
        => /\ interpolated.steps.q2 = arg_pose1.orientation
           /\ interpolated.steps.branch = "linear"
           /\ interpolated.steps.norm2 = One
           /\ interpolated.pose.orientation
                 \in {QuatValue(arg_pose1.orientation),
                      QuatValue(Negated(arg_pose1.orientation))}

(* the case of C16 happened: a3 traditional interpolated between           *)
(* (0.6, 0.8, 0, 0) and its negation at 1/3 and returned (0.6, 0.8, 0, 0)  *)
C16_Witness ==
    /\ InterpDone /\ impl = "a3_traditional"
    /\ arg_pose1.orientation = Q345
    /\ arg_pose2.orientation = Negated(Q345)
    /\ arg_t = R(1, 3)
    /\ interpolated.pose.orientation = QuatValue(Q345)

(* a normalization step ran: q.normalize() called directly, or the step of *)
(* the near-parallel branch of an interpolator                             *)
Normalized ==
    /\ pc = "done"
    /\ interpolated.called
    /\ interpolated.steps.norm_step # "none"

(* the quaternion the normalization step was applied to *)
NormInput == IF impl = "normalize" THEN arg_pose1.orientation ELSE ArgBlend

(* the squared norm of an orientation returned as a value *)
ValueNorm2(v) == RAdd(RAdd(v.w.q, v.x.q), RAdd(v.y.q, v.z.q))

(* the square of the epsilon 1e-10 *)
NormEps2 == RScale10(One, 0 - 2 * NormEpsExp)

(* C18: every normalization step (Quaternion::normalize and the            *)
(* normalization inside the near-parallel branch of each interpolator)     *)
(* yields the identity (1,0,0,0) when the norm is below 1e-10 and divides  *)
(* all four components by the norm when the norm is above 1e-10; it never  *)
(* divides by a norm at or below 1e-10, and its output is never a          *)
(* near-zero quaternion.                                                   *)
C18_NormalizationFallback ==
    Normalized
        => /\ interpolated.steps.norm2 = Norm2(NormInput)
           /\ (~NormAboveEps(Norm2(NormInput)) /\ Norm2(NormInput) # NormEps2)
                => interpolated.steps.value = QuatValue(Qid)
           /\ NormAboveEps(Norm2(NormInput))
                => /\ interpolated.steps.norm_step = "divided"
                   /\ interpolated.steps.value =
                         [kind |-> "value",
                          w |-> Over(NormInput.w, Norm2(NormInput)),
                          x |-> Over(NormInput.x, Norm2(NormInput)),
                          y |-> Over(NormInput.y, Norm2(NormInput)),
                          z |-> Over(NormInput.z, Norm2(NormInput))]
           /\ ~NormAboveEps(Norm2(NormInput))
                => interpolated.steps.norm_step # "divided"
           /\ NormAboveEps(ValueNorm2(interpolated.steps.value))

(* ---------------------------------------------------------------------- *)
(* Properties across containers and locators (checked under Spec).        *)
(* ---------------------------------------------------------------------- *)

(* the query of a3 that ran, on the same samples held in a container of    *)
(* the given kind                                                          *)
QueryIn(kind) ==
    IF impl = "a3_traditional"
    THEN interpolateTimedPoseA3(kind, BuildContainer(kind, pose_data), target_time)
    ELSE interpolateTimedPoseModernA3(kind, BuildContainer(kind, pose_data), target_time)

(* C19: for samples with strictly increasing timestamps and any            *)
(* target_time, the query returns the same outcome (the same timestamp and *)
(* pose, or the same kind of failure) whether the samples are held in a    *)
(* vector, a list or a map keyed by timestamp.                             *)
C19_ContainerIndependent ==
    (Done /\ impl \in {"a3_traditional", "a3_modern"} /\ StrictlyIncreasing(pose_data))
        => \A kind \in Containers :
             /\ QueryIn(kind).kind = result.kind
             /\ QueryIn(kind).value = result.value

(* the case of C19 happened: a3 modern interpolated on a map of three      *)
(* samples with increasing timestamps, strictly inside a pair              *)
C19_Witness ==
    /\ Done /\ impl = "a3_modern" /\ container = "map"
    /\ Len(pose_data) = 3 /\ StrictlyIncreasing(pose_data)
    /\ result.path = "interpolated"
    /\ QueryIn("vector").value = result.value
    /\ QueryIn("list").value = result.value

(* what the other locator of the same program version returns on the same  *)
(* container: the binary search for the linear scan and the reverse        *)
OtherLocator ==
    IF impl = "a2_traditional" THEN findNeighborPoseIndicesModern(pose_data, target_time)
    ELSE IF impl = "a2_modern" THEN findNeighborPoseIndices(pose_data, target_time)
    ELSE IF impl = "a3_traditional"
         THEN findNeighborPoseIteratorsModern(container, Queried, target_time)
    ELSE findNeighborPoseIterators(container, Queried, target_time)

(* C20: the linear-scan locator and the binary-search locator return the   *)
(* same outcome, the same Exact position or the same bracketing pair or    *)
(* the same kind of failure, for every non-decreasing trajectory and every *)
(* target_time.  Stated on the trajectories with strictly increasing       *)
(* timestamps, among the non-decreasing ones the claim covers: there the   *)
(* sample at a timestamp is unique.                                        *)
C20_LocatorsAgree ==
    (Done /\ StrictlyIncreasing(pose_data))
        => /\ OtherLocator.kind = neighbors.kind
           /\ OtherLocator.first = neighbors.first
           /\ OtherLocator.second = neighbors.second

(* ---------------------------------------------------------------------- *)
(* Queries of several threads on one trajectory. Each query of a3 takes   *)
(* the container by const reference and keeps the neighbours it found in  *)
(* a local of its own; a thread's query is two steps, the search and the  *)
(* interpolation, and the steps of the threads interleave freely.         *)
(* ---------------------------------------------------------------------- *)

(* the trajectories the threads share: increasing timestamps, and one     *)
(* pose for each timestamp                                                *)
InitConc ==
    /\ pose_data \in
          {d \in Trajectories :
              /\ StrictlyIncreasing(d)
              /\ \A k \in 1..Len(d) : d[k].pose.position.x = RInt(d[k].time_stamp % 2)}
    /\ container \in Containers
    /\ target_time = 0
    /\ pc = "ready"
    /\ impl = "none"
    /\ neighbors = NoNeighbors
    /\ result = NoResult
    /\ arg_pose1 = NoPose
    /\ arg_pose2 = NoPose
    /\ arg_t = Zero
    /\ interpolated = NoCall
    /\ ConcIdle
    /\ ParIdle
    /\ JacobiIdle

(* variant: the neighbours are kept in one static buffer that the last    *)
(* search of any thread has filled                                        *)
LocalNeighbors_Static(cs, th) ==
    LET other == CHOOSE o \in Threads : o # th
    IN  IF cs[other].pc = "idle" THEN cs[th].neighbors ELSE cs[other].neighbors

(* auto neighbors = findNeighborPoseIterators(...): a local of the call *)
LocalNeighbors(cs, th) == cs[th].neighbors

(* a thread calls a query and the query searches the shared container *)
ThreadFindNeighbors(th) ==
    /\ callers[th].pc = "idle"
    /\ \E which \in {"a3_traditional", "a3_modern"}, target \in Targets :
         LET c == BuildContainer(container, pose_data)
         IN  callers' = [callers EXCEPT ![th] =
                [pc |-> "located", impl |-> which, target |-> target,
                 neighbors |->
                     IF which = "a3_traditional"
                     THEN findNeighborPoseIterators(container, c, target)
                     ELSE findNeighborPoseIteratorsModern(container, c, target),
                 result |-> NoResult]]
    /\ UNCHANGED overlapped
    /\ UNCHANGED <<pose_data, container>>
    /\ UNCHANGED <<target_time, pc, impl, neighbors, result>>
    /\ UNCHANGED <<call_vars, par_vars, jacobi_vars>>

(* the query reads the two neighbours from the shared container and returns *)
ThreadInterpolate(th) ==
    /\ callers[th].pc = "located"
    /\ LET nb == LocalNeighbors(callers, th)
           c == BuildContainer(container, pose_data)
           target == callers[th].target
       IN  callers' = [callers EXCEPT
              ![th].pc = "done",
              ![th].result =
                  IF callers[th].impl = "a3_traditional"
                  THEN interpolateTimedPoseA3From(nb, container, c, target)
                  ELSE interpolateTimedPoseModernA3From(nb, container, c, target)]
    /\ overlapped' = (overlapped \/ \E o \in Threads \ {th} : callers[o].pc = "located")
    /\ UNCHANGED <<pose_data, container>>
    /\ UNCHANGED <<target_time, pc, impl, neighbors, result>>
    /\ UNCHANGED <<call_vars, par_vars, jacobi_vars>>

NextConc ==
    \/ \E th \in Threads : ThreadFindNeighbors(th)
    \/ \E th \in Threads : ThreadInterpolate(th)

SpecConc == InitConc /\ [][NextConc]_vars

(* C21: no step of a query changes the trajectory, and a query that       *)
(* returns while other queries run on the same trajectory returns what it *)
(* returns when the queries run one after another.                        *)
C21_ConcurrentQueries ==
    [][LET OneAfterAnother(cl, kind, data) ==
               IF cl.impl = "a3_traditional"
               THEN interpolateTimedPoseA3(kind, BuildContainer(kind, data), cl.target)
               ELSE interpolateTimedPoseModernA3(kind, BuildContainer(kind, data),
                                                 cl.target)
       IN  /\ pose_data' = pose_data
           /\ container' = container
           /\ \A th \in Threads :
                 callers'[th].pc = "done" =>
                     callers'[th].result =
                         OneAfterAnother(callers'[th], container, pose_data)]_vars

(* two queries overlapped, and both returned interpolated poses for       *)
(* different times                                                        *)
C21_Witness ==
    /\ overlapped
    /\ \A th \in Threads : callers[th].pc = "done" /\ callers[th].result.kind = "ok"
    /\ callers["t1"].result.path = "interpolated"
    /\ callers["t1"].target # callers["t2"].target
    /\ callers["t1"].impl # callers["t2"].impl

(* C22: in the binary-search locators, on a non-empty trajectory and a     *)
(* target_time within [first, last], the position lower_bound finds (the   *)
(* second of the returned pair) is an element and not end(), no element    *)
(* before it has a timestamp >= target_time, and when its timestamp is not *)
(* target_time the element before it exists, is the first of the pair and  *)
(* has a timestamp < target_time; nullopt is not returned.                 *)
C22_LowerBoundFindsElement ==
    (Done /\ Modern /\ N >= 1 /\ TsAt(1) <= target_time /\ target_time <= TsAt(N))
        => /\ neighbors.kind = "pair"
           /\ result.kind # "runtime_error"
           /\ neighbors.second \in 1..N
           /\ TsAt(neighbors.second) >= target_time
           /\ \A k \in 1..(neighbors.second - 1) : TsAt(k) < target_time
           /\ TsAt(neighbors.second) # target_time
                 => /\ neighbors.second > 1
                    /\ neighbors.first = neighbors.second - 1
                    /\ TsAt(neighbors.first) < target_time

(* a binary search that ended between two samples of a tied trajectory *)
C22_Witness ==
    /\ Done /\ Modern /\ N = MaxLen
    /\ TsAt(1) < target_time /\ target_time < TsAt(N)
    /\ neighbors.kind = "pair"
    /\ neighbors.second = N
    /\ neighbors.first = N - 1
    /\ TsAt(1) = TsAt(N - 1)

(* ---------------------------------------------------------------------- *)
(* The linear-scan queries on sequences in any order: the containers of   *)
(* vector and list keep the order the caller pushed the samples in.       *)
(* ---------------------------------------------------------------------- *)

(* sequences of samples in any order, one pose for each timestamp *)
InitScan ==
    /\ pose_data \in UNION { {d \in [1..n -> Samples] :
                                \A k \in 1..n :
                                    d[k].pose.position.x = RInt(d[k].time_stamp % 2)}
                            : n \in 0..MaxLen }
    /\ target_time \in Targets
    /\ pc = "ready"
    /\ impl = "none"
    /\ container = "vector"
    /\ neighbors = NoNeighbors
    /\ result = NoResult
    /\ arg_pose1 = NoPose
    /\ arg_pose2 = NoPose
    /\ arg_t = Zero
    /\ interpolated = NoCall
    /\ ConcIdle
    /\ ParIdle
    /\ JacobiIdle

NextScan ==
    \/ CallInterpolateTimedPoseA2
    \/ CallInterpolateTimedPoseA3
    \/ NextTestTime

SpecScan == InitScan /\ [][NextScan]_vars

(* C23: in the linear-scan locators, on a non-empty sequence of samples in *)
(* any order and a target_time with first <= target_time <= last, the scan *)
(* returns a pair (the throw after the loop is not reached) and reads no   *)
(* position outside the sequence.                                          *)
C23_ScanReturnsInsideLoop ==
    (Done /\ Traditional /\ N >= 1 /\ TsAt(1) <= target_time /\ target_time <= TsAt(N))
        => /\ neighbors.kind = "pair"
           /\ result.kind # "runtime_error"
           /\ neighbors.reads \subseteq 1..N

(* a scan over a vector that is not sorted, which went past a position     *)
(* where the timestamps decrease and returned a bracket                    *)
C23_Witness ==
    /\ Done /\ Traditional /\ container = "vector" /\ N = MaxLen
    /\ TsAt(1) > TsAt(2)
    /\ IsBracket
    /\ neighbors.first = N - 1

(* C24 as stated: every query that returns a TimedPose returns one whose   *)
(* time_stamp is target_time, on the exact, the interpolated and the       *)
(* near-zero-denominator return, for vector, list and map.                 *)
C24_AsStated ==
    (Done /\ result.kind = "ok") => result.value.time_stamp = target_time

(* C24: a query that returns through the exact or the interpolated return  *)
(* returns a TimedPose whose time_stamp is target_time; a query that       *)
(* returns through the near-zero-denominator guard returns the earlier     *)
(* sample of the bracket, whose time_stamp is below target_time by less    *)
(* than 1e-9.                                                              *)
C24_TimestampOfResult ==
    (Done /\ result.kind = "ok")
        => /\ result.path \in {"exact", "interpolated", "guard"}
           /\ result.path \in {"exact", "interpolated"}
                 => result.value.time_stamp = target_time
           /\ result.path = "guard"
                 => /\ result.value.time_stamp = TsAt(neighbors.first)
                    /\ result.value.time_stamp < target_time
                    /\ target_time - result.value.time_stamp < DenominatorEps

(* a query on a map returned through the guard *)
C24_Witness ==
    /\ Done /\ result.kind = "ok" /\ result.path = "guard"
    /\ container = "map"
    /\ result.value.time_stamp = target_time - 1

(* C25: whenever a query reaches the pose interpolator, the factor it      *)
(* passes, (target_time - t_i) / (t_j - t_i), is strictly greater than 0   *)
(* and strictly less than 1, and the clamp of the interpolator leaves it   *)
(* as it is.                                                               *)
C25_FactorStrictlyInside ==
    (Done /\ result.kind = "ok" /\ result.path = "interpolated")
        => LET PassedFactor ==
                   RDiv(RInt(target_time - TsAt(neighbors.first)),
                        RInt(TsAt(neighbors.second) - TsAt(neighbors.first)))
           IN  /\ RLess(Zero, PassedFactor)
               /\ RLess(PassedFactor, One)
               /\ clamp(PassedFactor, Zero, One) = PassedFactor

(* C26: whenever the general SLERP branch is taken, the sign-corrected dot *)
(* product lies in [0, 0.9995]: acos(dot) is defined and positive,         *)
(* sin(angle) is not zero (it is zero only at |dot| = 1), and the          *)
(* orientation computed is not the result of a division by zero, for every *)
(* pair of quaternions and every factor.                                   *)
C26_SlerpNeverDividesByZero ==
    (InterpDone /\ interpolated.steps.branch = "slerp")
        => /\ ~RLess(interpolated.steps.dot, Zero)
           /\ ~RLess(SlerpThreshold, interpolated.steps.dot)
           /\ RLess(interpolated.steps.dot, One)
           /\ interpolated.steps.value.kind # "nan"

(* the SLERP branch ran on a pair whose dot product was negative before    *)
(* the sign correction, at a factor outside [0, 1]                         *)
C26_Witness ==
    /\ InterpDone /\ interpolated.steps.branch = "slerp"
    /\ interpolated.steps.negated
    /\ RLess(Zero, interpolated.steps.dot)
    /\ RLess(One, arg_t)

(* ---------------------------------------------------------------------- *)
(* The parallel for-each of a4: parallel_for_each (traditional.cpp),      *)
(* parallel_for_each_pool and parallel_for_each_async (modern.cpp), as    *)
(* main() calls them: numbers[k] = k, an output vector of zeros, and the  *)
(* lambda that squares its element.  The three functions differ in what   *)
(* runs a block (std::thread or std::async) and in what waits for it      *)
(* (join or wait).  Elements are positions 0 .. total_size - 1.           *)
(* ---------------------------------------------------------------------- *)

(* largest hardware_concurrency() and largest range of the model *)
MaxHardware == 3
MaxSize == 13

(* `size_t index = &n - &numbers[0]` with n the by-value parameter of the  *)
(* lambda: the difference of two pointers that do not point into one array *)
(* is undefined.  The outcomes: an index inside the vector (the same for   *)
(* every element, since n is the same object at every call), an index     *)
(* outside it whose write leaves the vector as it is, and an index outside *)
(* it whose write ends the process.                                        *)
InitPar ==
    /\ pose_data = <<>>
    /\ target_time = 0
    /\ pc = "ready"
    /\ impl = "none"
    /\ container = "vector"
    /\ neighbors = NoNeighbors
    /\ result = NoResult
    /\ arg_pose1 = NoPose
    /\ arg_pose2 = NoPose
    /\ arg_t = Zero
    /\ interpolated = NoCall
    /\ ConcIdle
    /\ JacobiIdle
    /\ variant \in {"traditional", "pool", "async"}
    /\ hardware_concurrency \in 0..MaxHardware
    /\ total_size \in 0..MaxSize
    /\ copy_index \in
          {[kind |-> "inside", slot |-> j] : j \in 0..(total_size - 1)}
              \cup {[kind |-> "outside", slot |-> 0], [kind |-> "fault", slot |-> 0]}
    /\ par_pc = "called"
    /\ num_threads = 0
    /\ block_size = 0
    /\ block_begin = 0
    /\ threads = <<>>
    /\ own_it = 0
    /\ applied = [k \in 0..(total_size - 1) |-> <<>>]
    /\ squares = [k \in 0..(total_size - 1) |-> 0]

(* variant: the block of a thread ends one element early *)
BlockEnd_OneShort(first, size) == first + size - 1

(* block_end = block_begin; std::advance(block_end, block_size) *)
BlockEnd(first, size) == first + size

(* variant: join() returns without waiting for the thread (as detach()) *)
Finished_NotAwaited(th) == TRUE

(* thread.join() / future.wait() return once the thread has finished *)
Finished(th) == th.state = "finished"

(* a call of the lambda of main() on element k by thread who (0: the    *)
(* calling thread, w: the w-th thread it started): one more call on k,  *)
(* and squares[index] = n * n with index the value of &n - &numbers[0]  *)
(* position: where the calling thread stands after the call, unless the  *)
(* write has ended the process                                           *)
ApplyFunc(k, who, position) ==
    /\ applied' = [applied EXCEPT ![k] = Append(@, who)]
    /\ squares' = IF copy_index.kind = "inside"
                  THEN [squares EXCEPT ![copy_index.slot] = k * k]
                  ELSE squares
    /\ par_pc' = IF copy_index.kind = "fault" THEN "fault" ELSE position

(* lines 24-44 / 28-46 / 87-105: up to the choice between the loop in the  *)
(* calling thread and the blocks:                                         *)
(*   num_threads = num_threads > 0 ? num_threads : 1;                      *)
(*   if (total_size < num_threads * 4) { sequential loop; return; }        *)
(*   block_size = total_size / num_threads                                 *)
ParEnter ==
    /\ par_pc = "called"
    /\ num_threads' = IF hardware_concurrency > 0 THEN hardware_concurrency ELSE 1
    /\ IF total_size < num_threads' * 4
       THEN /\ par_pc' = "sequential"
            /\ UNCHANGED block_size
       ELSE /\ par_pc' = "spawn"
            /\ block_size' = total_size \div num_threads'
    /\ block_begin' = 0
    /\ own_it' = 0
    /\ UNCHANGED <<variant, hardware_concurrency, total_size, copy_index,
                 threads, applied, squares>>
    /\ UNCHANGED <<query_vars, pc, impl, call_vars, callers, overlapped, jacobi_vars>>

(* one turn of the sequential loop / of std::for_each(begin, end, func) *)
SequentialStep ==
    /\ par_pc = "sequential"
    /\ own_it < total_size
    /\ ApplyFunc(own_it, 0, "sequential")
    /\ own_it' = own_it + 1
    /\ UNCHANGED <<variant, hardware_concurrency, total_size, copy_index,
                 num_threads, block_size, block_begin, threads>>
    /\ UNCHANGED <<query_vars, pc, impl, call_vars, callers, overlapped, jacobi_vars>>

(* the early return after the sequential loop *)
SequentialReturn ==
    /\ par_pc = "sequential"
    /\ own_it = total_size
    /\ par_pc' = "returned"
    /\ UNCHANGED <<variant, hardware_concurrency, total_size, copy_index,
                 num_threads, block_size, block_begin, threads,
                 own_it, applied, squares>>
    /\ UNCHANGED <<query_vars, pc, impl, call_vars, callers, overlapped, jacobi_vars>>

(* one turn of `for (i = 0; i < num_threads - 1; ++i)`: a thread (an async *)
(* task) is started on the next block                                      *)
SpawnThread ==
    /\ par_pc = "spawn"
    /\ Len(threads) < num_threads - 1
    /\ threads' = Append(threads,
                         [block_begin |-> block_begin,
                          block_end |-> BlockEnd(block_begin, block_size),
                          it |-> block_begin, state |-> "running", joined |-> 0])
    /\ block_begin' = BlockEnd(block_begin, block_size)
    /\ UNCHANGED <<variant, hardware_concurrency, total_size, copy_index,
                 par_pc, num_threads, block_size, own_it, applied,
                 squares>>
    /\ UNCHANGED <<query_vars, pc, impl, call_vars, callers, overlapped, jacobi_vars>>

(* the loop is over: worker(block_begin, end) starts in the calling thread *)
StartOwnBlock ==
    /\ par_pc = "spawn"
    /\ Len(threads) >= num_threads - 1
    /\ par_pc' = "own_block"
    /\ own_it' = block_begin
    /\ UNCHANGED <<variant, hardware_concurrency, total_size, copy_index,
                 num_threads, block_size, block_begin, threads,
                 applied, squares>>
    /\ UNCHANGED <<query_vars, pc, impl, call_vars, callers, overlapped, jacobi_vars>>

(* one turn of the loop of worker in the calling thread *)
OwnBlockStep ==
    /\ par_pc = "own_block"
    /\ own_it < total_size
    /\ ApplyFunc(own_it, 0, "own_block")
    /\ own_it' = own_it + 1
    /\ UNCHANGED <<variant, hardware_concurrency, total_size, copy_index,
                 num_threads, block_size, block_begin, threads>>
    /\ UNCHANGED <<query_vars, pc, impl, call_vars, callers, overlapped, jacobi_vars>>

(* worker returned in the calling thread: on to the loop of joins *)
OwnBlockDone ==
    /\ par_pc = "own_block"
    /\ own_it = total_size
    /\ par_pc' = "join"
    /\ own_it' = 0
    /\ UNCHANGED <<variant, hardware_concurrency, total_size, copy_index,
                 num_threads, block_size, block_begin, threads,
                 applied, squares>>
    /\ UNCHANGED <<query_vars, pc, impl, call_vars, callers, overlapped, jacobi_vars>>

(* one turn of the loop of worker in a started thread *)
WorkerStep(w) ==
    /\ par_pc \notin {"idle", "fault"}
    /\ threads[w].state = "running"
    /\ threads[w].it < threads[w].block_end
    /\ ApplyFunc(threads[w].it, w, par_pc)
    /\ threads' = [threads EXCEPT ![w].it = @ + 1]
    /\ UNCHANGED <<variant, hardware_concurrency, total_size, copy_index,
                 num_threads, block_size, block_begin, own_it>>
    /\ UNCHANGED <<query_vars, pc, impl, call_vars, callers, overlapped, jacobi_vars>>

(* worker returned in a started thread: the thread ends *)
WorkerDone(w) ==
    /\ par_pc \notin {"idle", "fault"}
    /\ threads[w].state = "running"
    /\ threads[w].it = threads[w].block_end
    /\ threads' = [threads EXCEPT ![w].state = "finished"]
    /\ UNCHANGED <<variant, hardware_concurrency, total_size, copy_index,
                 par_pc, num_threads, block_size, block_begin, own_it,
                 applied, squares>>
    /\ UNCHANGED <<query_vars, pc, impl, call_vars, callers, overlapped, jacobi_vars>>

(* one turn of `for (auto& thread : threads) thread.join()` (future.wait()):*)
(* own_it counts the threads joined so far                                  *)
JoinThread ==
    /\ par_pc = "join"
    /\ own_it < Len(threads)
    /\ Finished(threads[own_it + 1])
    /\ threads' = [threads EXCEPT ![own_it + 1].joined = @ + 1]
    /\ own_it' = own_it + 1
    /\ UNCHANGED <<variant, hardware_concurrency, total_size, copy_index,
                 par_pc, num_threads, block_size, block_begin, applied,
                 squares>>
    /\ UNCHANGED <<query_vars, pc, impl, call_vars, callers, overlapped, jacobi_vars>>

(* the loop of joins is over: the function returns *)
ParReturn ==
    /\ par_pc = "join"
    /\ own_it = Len(threads)
    /\ par_pc' = "returned"
    /\ UNCHANGED <<variant, hardware_concurrency, total_size, copy_index,
                 num_threads, block_size, block_begin, threads,
                 own_it, applied, squares>>
    /\ UNCHANGED <<query_vars, pc, impl, call_vars, callers, overlapped, jacobi_vars>>

NextPar ==
    \/ ParEnter
    \/ SequentialStep
    \/ SequentialReturn
    \/ SpawnThread
    \/ StartOwnBlock
    \/ OwnBlockStep
    \/ OwnBlockDone
    \/ \E w \in 1..Len(threads) : WorkerStep(w)
    \/ \E w \in 1..Len(threads) : WorkerDone(w)
    \/ JoinThread
    \/ ParReturn

SpecPar == InitPar /\ [][NextPar]_vars

(* C27: the three functions call func on every element exactly once, for   *)
(* every size of the range and every hardware_concurrency(), 0 included:   *)
(* no element is ever given to func twice and at the return every element  *)
(* has been given once; below 4 * num_threads elements no thread is        *)
(* started; otherwise num_threads - 1 threads are started on pairwise      *)
(* disjoint blocks of total_size / num_threads elements each, one after    *)
(* the other from begin, and the calling thread takes the rest up to end.  *)
C27_EveryElementOnce ==
    LET Caller == 0
        BlocksHandedOut ==
            /\ par_pc \in {"own_block", "join", "returned"}
            /\ ~(total_size < num_threads * 4)
    IN
    /\ \A k \in DOMAIN applied : Len(applied[k]) <= 1
    /\ par_pc # "called"
          => num_threads = (IF hardware_concurrency = 0 THEN 1 ELSE hardware_concurrency)
    /\ par_pc = "returned" => \A k \in 0..(total_size - 1) : Len(applied[k]) = 1
    /\ par_pc \in {"sequential", "returned"} /\ total_size < num_threads * 4
          => /\ threads = <<>>
             /\ \A k \in 0..(own_it - 1) : applied[k] = <<Caller>>
    /\ BlocksHandedOut
          => /\ Len(threads) = num_threads - 1
             /\ \A w \in 1..Len(threads) :
                   /\ threads[w].block_begin = (w - 1) * (total_size \div num_threads)
                   /\ threads[w].block_end = w * (total_size \div num_threads)
                   /\ \A v \in 1..Len(threads) :
                         v # w => \/ threads[v].block_end <= threads[w].block_begin
                                  \/ threads[w].block_end <= threads[v].block_begin
                   /\ threads[w].block_end <= block_begin
             /\ block_begin = (num_threads - 1) * (total_size \div num_threads)
    /\ BlocksHandedOut /\ par_pc = "returned"
          => /\ \A w \in 1..Len(threads) :
                   \A k \in threads[w].block_begin..(threads[w].block_end - 1) :
                       applied[k] = <<w>>
             /\ \A k \in block_begin..(total_size - 1) : applied[k] = <<Caller>>

(* a call returned that had started two threads or more on a range whose   *)
(* size is not a multiple of num_threads                                   *)
C27_Witness ==
    /\ par_pc = "returned"
    /\ variant = "async"
    /\ Len(threads) >= 2
    /\ total_size % num_threads # 0
    /\ applied[total_size - 1] = <<0>>

(* C28: a parallel for-each returns only after every thread (async task)   *)
(* it started has run func on its whole block and has ended, and after it  *)
(* has called join() (wait()) on each of them exactly once; no thread is   *)
(* joined twice.                                                           *)
C28_ReturnsAfterWorkers ==
    /\ \A w \in 1..Len(threads) : threads[w].joined <= 1
    /\ par_pc = "returned"
          => \A w \in 1..Len(threads) :
                /\ threads[w].state = "finished"
                /\ threads[w].it = threads[w].block_end
                /\ threads[w].joined = 1

(* a call of the thread-pool variant returned after it had started and     *)
(* joined two threads or more                                              *)
C28_Witness ==
    /\ par_pc = "returned"
    /\ variant = "pool"
    /\ Len(threads) >= 2
    /\ \A w \in 1..Len(threads) : threads[w].joined = 1

MaxDim == 2
MaxIterations == 3

(* 1e-12, the threshold on the diagonal: |a| > 10^(-DiagonalEpsExp) *)
DiagonalEpsExp == 12

(* the calls: square systems, Eigen::MatrixXd A(n, n) and Eigen::VectorXd  *)
(* b(n) with entries on the diagonal, off the diagonal and on the         *)
(* right-hand side, and systems whose A is not square or whose b has       *)
(* another size than A has rows; tolerances 0.1 and 1                      *)
InitJacobi ==
    /\ pose_data = <<>>
    /\ target_time = 0
    /\ pc = "ready"
    /\ impl = "none"
    /\ container = "vector"
    /\ neighbors = NoNeighbors
    /\ result = NoResult
    /\ arg_pose1 = NoPose
    /\ arg_pose2 = NoPose
    /\ arg_t = Zero
    /\ interpolated = NoCall
    /\ ConcIdle
    /\ ParIdle
    /\ LET Diagonals == {0, 1, 2}
           OffDiagonals == {-1, 0, 1}
           Constants == {0, 1}
           Matrix(rows, cols, at) == [rows |-> rows, cols |-> cols, at |-> at]
           SquareSystems ==
               UNION { { [A |-> Matrix(n, n, [p \in (1..n) \X (1..n) |->
                                                 IF p[1] = p[2] THEN diag[p[1]] ELSE off]),
                          b |-> bb] :
                         diag \in [1..n -> Diagonals], off \in OffDiagonals,
                         bb \in [1..n -> Constants] }
                       : n \in 0..MaxDim }
           MismatchedSystems ==
               { [A |-> Matrix(rows, cols, [p \in (1..rows) \X (1..cols) |-> 1]),
                  b |-> [k \in 1..size |-> 1]] :
                 rows \in 0..MaxDim, cols \in 0..MaxDim, size \in 0..MaxDim }
       IN  \E sys \in SquareSystems \cup MismatchedSystems :
              mat_A = sys.A /\ vec_b = sys.b
    /\ max_iterations \in 0..MaxIterations
    /\ tolerance \in {Rat(1, 10), One}
    /\ jacobi_pc = "called"
    /\ vec_x = <<>>
    /\ iter = 0
    /\ solve_result = DefaultResult

(* the sum of the first n elements of a sequence of numbers *)
RECURSIVE RSum(_, _)
RSum(f, n) == IF n = 0 THEN Zero ELSE RAdd(RSum(f, n - 1), f[n])

(* D_inv(i, i): 1.0 / A(i, i) if std::abs(A(i, i)) > 1e-12, else 0 *)
DInv(A, i) ==
    LET a == RInt(A.at[<<i, i>>])
        abs == IF RSign(a) < 0 THEN RNeg(a) ELSE a
    IN  IF RAbovePow10(abs, DiagonalEpsExp) THEN RDiv(One, a) ELSE Zero

(* x_new = D_inv * (b - R * x), with R(i, j) = A(i, j) and R(i, i) = 0.0 *)
JacobiStep(A, b, x) ==
    LET OffDiagonal(i, j) == IF i = j THEN Zero ELSE RInt(A.at[<<i, j>>])
    IN  [i \in 1..A.rows |->
            RMul(DInv(A, i),
                 RSub(RInt(b[i]),
                      RSum([j \in 1..A.rows |-> RMul(OffDiagonal(i, j), x[j])], A.rows)))]

(* the square of (u - v).norm() *)
DistanceSquared(u, v, n) ==
    RSum([i \in 1..n |-> RMul(RSub(u[i], v[i]), RSub(u[i], v[i]))], n)

(* the square of (A * x - b).norm() *)
ResidualSquared(A, b, x) ==
    DistanceSquared([i \in 1..A.rows |->
                        RSum([j \in 1..A.rows |-> RMul(RInt(A.at[<<i, j>>]), x[j])], A.rows)],
                    [i \in 1..A.rows |-> RInt(b[i])], A.rows)

(* variant: the step is accepted at the tolerance itself (`<=` for `<`) *)
Converged_Inclusive(error2, tol) ==
    RLess(Zero, tol) /\ ~RLess(RMul(tol, tol), error2)

(* if (current_error < tolerance), on the square of current_error >= 0 *)
Converged(error2, tol) ==
    RLess(Zero, tol) /\ RLess(error2, RMul(tol, tol))

(* lines 167-203: the check of the dimensions,                            *)
(* if (A.rows() != A.cols() || A.rows() != b.size()), and the set-up of x, *)
(* D_inv and R                                                             *)
JacobiEnter ==
    /\ jacobi_pc = "called"
    /\ IF mat_A.rows # mat_A.cols \/ mat_A.rows # Len(vec_b)
       THEN /\ jacobi_pc' = "returned"
            /\ UNCHANGED vec_x
       ELSE /\ jacobi_pc' = "loop"
            /\ vec_x' = [i \in 1..mat_A.rows |-> Zero]
    /\ iter' = 0
    /\ solve_result' = DefaultResult
    /\ UNCHANGED <<mat_A, vec_b, max_iterations, tolerance>>
    /\ UNCHANGED <<query_vars, pc, impl, call_vars, callers, overlapped, par_vars>>

(* one turn of `for (iter = 0; iter < max_iterations; ++iter)` *)
JacobiIterate ==
    /\ jacobi_pc = "loop"
    /\ iter < max_iterations
    /\ \E x_new \in {JacobiStep(mat_A, vec_b, vec_x)} :
         \E current_error2 \in {DistanceSquared(x_new, vec_x, mat_A.rows)} :
            IF Converged(current_error2, tolerance)
            THEN /\ solve_result' =
                       [solution |-> x_new,
                        success |-> TRUE,
                        iterations |-> iter + 1,
                        error2 |-> ResidualSquared(mat_A, vec_b, x_new)]
                 /\ jacobi_pc' = "returned"
                 /\ UNCHANGED <<vec_x, iter>>
            ELSE /\ vec_x' = x_new
                 /\ solve_result' = [solve_result EXCEPT !.iterations = iter + 1]
                 /\ iter' = iter + 1
                 /\ UNCHANGED jacobi_pc
    /\ UNCHANGED <<mat_A, vec_b, max_iterations, tolerance>>
    /\ UNCHANGED <<query_vars, pc, impl, call_vars, callers, overlapped, par_vars>>

(* the loop ended without a step below the tolerance *)
JacobiExhausted ==
    /\ jacobi_pc = "loop"
    /\ iter >= max_iterations
    /\ solve_result' = [solve_result EXCEPT !.solution = vec_x,
                                            !.error2 = ResidualSquared(mat_A, vec_b, vec_x)]
    /\ jacobi_pc' = "returned"
    /\ UNCHANGED <<vec_x, iter>>
    /\ UNCHANGED <<mat_A, vec_b, max_iterations, tolerance>>
    /\ UNCHANGED <<query_vars, pc, impl, call_vars, callers, overlapped, par_vars>>

NextJacobi ==
    \/ JacobiEnter
    \/ JacobiIterate
    \/ JacobiExhausted

SpecJacobi == InitJacobi /\ [][NextJacobi]_vars

(* x after k turns of the loop that did not return *)
RECURSIVE Iterate(_)
Iterate(k) ==
    IF k = 0 THEN [i \in 1..mat_A.rows |-> Zero]
    ELSE JacobiStep(mat_A, vec_b, Iterate(k - 1))

(* the turns, up to max_iterations, whose step ||x_new - x|| is below the *)
(* tolerance                                                              *)
TurnsBelow ==
    {k \in 1..max_iterations :
        /\ RLess(Zero, tolerance)
        /\ RLess(DistanceSquared(Iterate(k), Iterate(k - 1), mat_A.rows),
                 RMul(tolerance, tolerance))}

(* C30: solveWithManualJacobi returns, after at most max_iterations turns  *)
(* of its loop (every step of a call brings the return nearer, by a        *)
(* measure that starts at max_iterations + 2); on a square A with b of the *)
(* same size, success is true iff the step of some turn                    *)
(* k <= max_iterations is below the tolerance, and                         *)
(* iterations is then the first such k; otherwise success is false and     *)
(* iterations is max_iterations; on a non-square A or a b of another size  *)
(* it returns success = false and iterations = 0 without a turn of the     *)
(* loop.                                                                   *)
C30_JacobiTerminates ==
    /\ [](LET Mismatch == mat_A.rows # mat_A.cols \/ mat_A.rows # Len(vec_b)
          IN  /\ iter <= max_iterations
              /\ solve_result.iterations <= max_iterations
              /\ jacobi_pc = "returned"
                    => IF Mismatch
                       THEN /\ ~solve_result.success
                            /\ solve_result.iterations = 0
                            /\ iter = 0
                       ELSE IF TurnsBelow # {}
                       THEN /\ solve_result.success
                            /\ solve_result.iterations \in TurnsBelow
                            /\ \A k \in TurnsBelow : solve_result.iterations <= k
                       ELSE /\ ~solve_result.success
                            /\ solve_result.iterations = max_iterations)
    /\ [][LET StepsLeft(position, turns) ==
                  IF position = "called" THEN max_iterations + 2
                  ELSE IF position = "loop" THEN max_iterations - turns + 1
                  ELSE 0
          IN  StepsLeft(jacobi_pc', iter') < StepsLeft(jacobi_pc, iter)]_vars

(* a call returned success after more than one turn, on a system of two    *)
(* equations with entries off the diagonal                                 *)
C30_Witness ==
    /\ jacobi_pc = "returned"
    /\ solve_result.success
    /\ solve_result.iterations = max_iterations
    /\ solve_result.iterations > 1
    /\ mat_A.rows = MaxDim
    /\ mat_A.at[<<1, MaxDim>>] # 0

====
